---- MODULE Spec2Model ----
(***************************************************************************)
(* Model of the northstar container runtime core:                          *)
(*   - the control-plane client multiplexer (api/client.rs),               *)
(*   - the launcher / Process supervision (runtime/process/mod.rs),        *)
(*   - the init process (runtime/fork/init/mod.rs).                        *)
(* Each component has its own specification (SpecClient, SpecProc,         *)
(* SpecInit); the variables of the other components stay unchanged.        *)
(***************************************************************************)
EXTENDS Integers, Sequences, FiniteSets, TLC

(***************************************************************************)
(* Bounds of the model                                                     *)
(***************************************************************************)
\* number of requests the callers of one Client submit
MaxReq == 2
\* number of Response frames the runtime puts on the connection
MaxResp == 2
\* number of Notification frames the runtime puts on the connection
MaxNotif == 11
\* number of signals the runtime sends to one Process
MaxKills == 2
\* number of entries of the mount plan
MaxMounts == 2
\* number of rlimits of the descriptor
MaxRlimits == 1

(***************************************************************************)
(* Program constants                                                       *)
(***************************************************************************)
\* mpsc::channel(10) of notifications, client.rs:74
NotifCap == 10
\* mpsc::channel(10) of requests, client.rs:76
RequestCap == 10

VARIABLES
    \* ---- control-plane client (api/client.rs) ----
    response_tx,      \* Option<oneshot::Sender>: 0 = None, else the request id
    request_rx,       \* the requests queued in the mpsc request channel
    waiter,           \* per request: state of the caller's oneshot receiver
    mux,              \* the multiplexer task: running, blocked, or its result
    notification_rx,  \* the notifications queued for the Client stream
    heldNotif,        \* the notification the task holds while the channel is full
    clientAlive,      \* the Client (request_tx and notification_rx) exists
    wire,             \* request ids written to the connection, in order
    nSubmitted,       \* requests submitted so far
    nNotif,           \* Notification frames received so far
    taken,            \* notifications the Client stream yielded, in order
    route,            \* history: one record per Response frame received
    submitPending,    \* history: was a request in flight when this one was submitted
    \* ---- launcher and Process (runtime/process/mod.rs) ----
    create,           \* progress of Launcher::create: idle, blocked, done, panicked
    sigBlocked,       \* the runtime thread has all signals blocked
    proc,             \* the Process handle: none, created, dropped
    checkpoint,       \* Process.checkpoint is Some
    exit_status,      \* Process.exit_status is Some
    io,               \* Process.io holds the log tails
    pipeW,            \* per condition pipe: the processes holding its write end open
    pipeByte,         \* per condition pipe: the byte was written
    child,            \* the cloned child: none, cloned, waiting, started, zombie, reaped
    childSid,         \* the child called setsid (it leads the process group `pid`)
    childAcked,       \* the child notified its checkpoint half
    childStatus,      \* the wait status of the terminated child
    spawn,            \* progress of Process::spawn: none, awaiting, done, panicked
    killed,           \* history: signals the runtime delivered to the group -pid
    killResult,       \* result of the last Process::kill
    wt,               \* the wait task: none, spawned, listening, sending, done, panicked
    sigchld,          \* the wait task's SIGCHLD stream has an unconsumed signal
    observed,         \* history: terminal statuses exit_status(pid) returned
    events,           \* Event::Exit values sent on the event bus
    busOpen,          \* the receiver of the event bus exists
    waitCall,         \* progress of Process::wait: none, awaiting, returned, panicked
    waitResult,       \* the status Process::wait returned
    \* ---- init (runtime/fork/init/mod.rs) ----
    desc,             \* the Init descriptor and the console argument of Init::run
    ipc,              \* the statement of Init::run that init executes next
    done,             \* history: the setup steps init completed, in order
    failed,           \* history: the step whose failure init met, "none" if none
    mounted,          \* mounts of the mount plan executed so far
    limited,          \* rlimits applied so far
    euid,             \* effective uid of init
    keepcaps,         \* the keep-caps securebit
    nnp,              \* no_new_privs of init
    caps,             \* capability sets of init: e, p, i, a (ambient), b (bounding)
    netnsAttached,    \* init entered the configured network namespace
    ifilter,          \* a seccomp filter is installed in init
    sent,             \* messages init sent on the runtime socket
    env,              \* env entries init appended to the received env
    iofd,             \* the three descriptors received with recv_fds, <<>> before
    ioOpen,           \* init still holds the received descriptors
    consoleOpen,      \* init still holds the console descriptor
    pid,              \* pid of the forked payload, 0 before the fork
    waited,           \* init has called waitpid on the payload
    pay,              \* the payload child: its next step, or running, zombie, reaped
    payk,             \* index of the descriptor the next dup2 or close handles
    ptrace,           \* history: the steps the payload child completed
    pfd,              \* descriptor table of the payload child
    pfilter,          \* a seccomp filter is installed in the payload child
    pstatus,          \* wait status of the terminated payload
    \* ---- convenience wrappers of the client (api/client.rs) ----
    method,           \* the wrapper that was called
    reply,            \* what the underlying Client::request returned
    narrowed,         \* what the wrapper returned
    \* ---- pipe (runtime/ipc/pipe.rs) ----
    pipeMode,         \* how reader and writer run: thread, async, fork
    pipeBuf,          \* the bytes held in the kernel's pipe buffer
    readEnds,         \* who holds an open descriptor of the read end
    writeEnds,        \* who holds an open descriptor of the write end
    sentBytes,        \* history: the bytes write(2) accepted, in order
    seen,             \* history: the bytes the reader's reads delivered, in order
    rbuf,             \* the buffer behind the ReadBuf of the async reader
    filled,           \* ReadBuf.filled of the async reader
    eof,              \* a read returned 0
    werr,             \* the error a write returned, "none" if none
    rerr,             \* the async reader panicked in ReadBuf::advance
    \* ---- argv and env of the launcher (runtime/process/mod.rs) ----
    manifest,         \* the container's manifest: init, name, version, args, env
    callArgs,         \* the optional args passed to create
    callEnv,          \* the optional env passed to create
    argv,             \* result of init_argv, <<>> before the call
    envp              \* result of env, <<>> before the call

clientVars == <<response_tx, request_rx, waiter, mux, notification_rx, heldNotif,
                clientAlive, wire, nSubmitted, nNotif, taken, route, submitPending>>

procVars == <<create, sigBlocked, proc, checkpoint, exit_status, io, pipeW, pipeByte,
              child, childSid, childAcked, childStatus, spawn, killed, killResult, wt,
              sigchld, observed, events, busOpen, waitCall, waitResult>>

initVars == <<desc, ipc, done, failed, mounted, limited, euid, keepcaps, nnp, caps,
              netnsAttached, ifilter, sent, env, iofd, ioOpen, consoleOpen, pid, waited,
              pay, payk, ptrace, pfd, pfilter, pstatus>>

wrapVars == <<method, reply, narrowed>>

pipeVars == <<pipeMode, pipeBuf, readEnds, writeEnds, sentBytes, seen, rbuf, filled, eof,
              werr, rerr>>

launchVars == <<manifest, callArgs, callEnv, argv, envp>>

vars == <<clientVars, procVars, initVars, wrapVars, pipeVars, launchVars>>

(***************************************************************************)
(* Launcher and Process: state after Launcher::start, nothing created yet  *)
(***************************************************************************)
NoStatus == [kind |-> "None", v |-> 0]

ProcIdle ==
    /\ create = "idle"
    /\ sigBlocked = FALSE
    /\ proc = "none"
    /\ checkpoint = FALSE
    /\ exit_status = FALSE
    /\ io = FALSE
    /\ pipeW = [a |-> {}, b |-> {}]
    /\ pipeByte = [a |-> FALSE, b |-> FALSE]
    /\ child = "none"
    /\ childSid = FALSE
    /\ childAcked = FALSE
    /\ childStatus = NoStatus
    /\ spawn = "none"
    /\ killed = <<>>
    /\ killResult = [errno |-> "none", result |-> "none"]
    /\ wt = "none"
    /\ sigchld = FALSE
    /\ observed = <<>>
    /\ events = <<>>
    /\ busOpen = TRUE
    /\ waitCall = "none"
    /\ waitResult = NoStatus

(***************************************************************************)
(* Init: the state in which no init process exists                         *)
(***************************************************************************)
\* the capabilities the model distinguishes
Caps == {"CAP_SETPCAP", "CAP_NET_BIND_SERVICE", "CAP_SYS_ADMIN"}

NoCaps == [e |-> {}, p |-> {}, i |-> {}, a |-> {}, b |-> {}]

\* descriptor numbers of the model
Fds == 0..5

InitIdle ==
    /\ desc = [netns |-> "none", mounts |-> 0, uid |-> 0, capabilities |-> {},
               rlimits |-> 0, seccomp |-> FALSE, console |-> FALSE]
    /\ ipc = "none"
    /\ done = <<>>
    /\ failed = "none"
    /\ mounted = 0
    /\ limited = 0
    /\ euid = 0
    /\ keepcaps = FALSE
    /\ nnp = FALSE
    /\ caps = NoCaps
    /\ netnsAttached = FALSE
    /\ ifilter = FALSE
    /\ sent = <<>>
    /\ env = {}
    /\ iofd = <<>>
    /\ ioOpen = FALSE
    /\ consoleOpen = FALSE
    /\ pid = 0
    /\ waited = FALSE
    /\ pay = "none"
    /\ payk = 0
    /\ ptrace = <<>>
    /\ pfd = [f \in Fds |-> "none"]
    /\ pfilter = FALSE
    /\ pstatus = NoStatus

(***************************************************************************)
(* Wrappers, pipe, launcher arguments: the state in which none is in use   *)
(***************************************************************************)
\* Option::None
None == [some |-> FALSE, v |-> <<>>]

\* Option::Some(x)
Some(x) == [some |-> TRUE, v |-> x]

\* a Result<Response, Error> that does not exist yet
NoResult == [tag |-> "none", v |-> <<>>]

WrapIdle ==
    /\ method = "none"
    /\ reply = NoResult
    /\ narrowed = NoResult

PipeIdle ==
    /\ pipeMode = "none"
    /\ pipeBuf = <<>>
    /\ readEnds = {}
    /\ writeEnds = {}
    /\ sentBytes = <<>>
    /\ seen = <<>>
    /\ rbuf = <<>>
    /\ filled = 0
    /\ eof = FALSE
    /\ werr = "none"
    /\ rerr = "none"

LaunchIdle ==
    /\ manifest = [init |-> "none", name |-> "none", version |-> "none",
                   args |-> None, env |-> None]
    /\ callArgs = None
    /\ callEnv = None
    /\ argv = <<>>
    /\ envp = <<>>

LibIdle == WrapIdle /\ PipeIdle /\ LaunchIdle

(***************************************************************************)
(* Control-plane client                                                    *)
(***************************************************************************)
ReqIds == 1..MaxReq

\* the outcome a caller of Client::request observes
Waiter(st, resp) == [st |-> st, resp |-> resp]

Idle == Waiter("idle", 0)
Waiting == Waiter("waiting", 0)
Cancelled == Waiter("cancelled", 0)

\* oneshot::Sender::send(v).ok(): the value reaches the receiver only if the
\* receiver still exists; otherwise it is dropped silently
OneshotSend(w, i, st, resp) ==
    IF w[i] = Waiting THEN [w EXCEPT ![i] = Waiter(st, resp)] ELSE w

\* dropping a oneshot::Sender: a receiver still awaiting sees RecvError,
\* which Client::request maps to Error::Stopped
DropSendersLeaks(w, ids) == w
DropSenders(w, ids) == [i \in ReqIds |-> IF i \in ids /\ w[i] = Waiting THEN Waiter("Stopped", 0) ELSE w[i]]

SeqToSet(s) == {s[k] : k \in 1..Len(s)}

ClientInit ==
    /\ response_tx = 0
    /\ request_rx = <<>>
    /\ waiter = [i \in ReqIds |-> Idle]
    /\ mux = "running"
    /\ notification_rx = <<>>
    /\ heldNotif = 0
    /\ clientAlive = TRUE
    /\ wire = <<>>
    /\ nSubmitted = 0
    /\ nNotif = 0
    /\ taken = <<>>
    /\ route = <<>>
    /\ submitPending = [i \in ReqIds |-> FALSE]

\* the task ends (break): everything it owns is dropped
MuxBreak(result) ==
    /\ mux' = result
    /\ waiter' = DropSenders(waiter, SeqToSet(request_rx) \cup {response_tx})
    /\ response_tx' = 0
    /\ request_rx' = <<>>
    /\ heldNotif' = 0

Terminated == {"ok", "protocol", "io"}

\* `break Err(Error::Protocol)`: the result the task ends with
ProtocolErrorAsOk == "ok"
ProtocolError == "protocol"

\* mpsc::Sender::send: the item goes to the back of the channel
EnqueueFront(q, n) == <<n>> \o q
Enqueue(q, n) == Append(q, n)

\* Client::request, first half: the (request, oneshot sender) pair is put into the
\* request channel; the send fails with Stopped once the task dropped request_rx
Submit ==
    /\ UNCHANGED <<procVars, initVars, wrapVars, pipeVars, launchVars>>
    /\ clientAlive
    /\ nSubmitted < MaxReq
    /\ LET i == nSubmitted + 1 IN
        /\ nSubmitted' = i
        /\ submitPending' = [submitPending EXCEPT ![i] = (response_tx # 0)]
        /\ IF mux \in Terminated
           THEN /\ waiter' = [waiter EXCEPT ![i] = Waiter("Stopped", 0)]
                /\ UNCHANGED request_rx
           ELSE /\ Len(request_rx) < RequestCap
                /\ request_rx' = Append(request_rx, i)
                /\ waiter' = [waiter EXCEPT ![i] = Waiting]
    /\ UNCHANGED <<response_tx, mux, notification_rx, heldNotif, clientAlive, wire,
                   nNotif, taken, route>>

\* the caller drops the future returned by Client::request before it resolved
Cancel(i) ==
    /\ UNCHANGED <<procVars, initVars, wrapVars, pipeVars, launchVars>>
    /\ waiter[i] = Waiting
    /\ waiter' = [waiter EXCEPT ![i] = Cancelled]
    /\ UNCHANGED <<response_tx, request_rx, mux, notification_rx, heldNotif,
                   clientAlive, wire, nSubmitted, nNotif, taken, route, submitPending>>

\* `response_tx.is_some()`
PendingNever(rt) == FALSE
IsPending(rt) == rt # 0

\* `r_tx.send(Err(Error::PendingRequest)).ok()`
RejectAsIo(w, i) == OneshotSend(w, i, "Io", 0)
Reject(w, i) == OneshotSend(w, i, "PendingRequest", 0)

\* `Err(e) => drop(r_tx.send(Err(Error::Io(e))))`
SendFailedSilent(w, i) == w
SendFailed(w, i) == OneshotSend(w, i, "Io", 0)

\* select! branch `request = request_rx.recv()` with Some((request, r_tx))
OnRequest(sendOk) ==
    /\ UNCHANGED <<procVars, initVars, wrapVars, pipeVars, launchVars>>
    /\ mux = "running"
    /\ request_rx # <<>>
    /\ LET i == Head(request_rx) IN
        /\ request_rx' = Tail(request_rx)
        /\ IF IsPending(response_tx)
           THEN /\ waiter' = Reject(waiter, i)
                /\ UNCHANGED <<response_tx, wire>>
           ELSE IF sendOk
           THEN /\ wire' = Append(wire, i)
                /\ response_tx' = i
                /\ UNCHANGED waiter
           ELSE /\ waiter' = SendFailed(waiter, i)
                /\ UNCHANGED <<response_tx, wire>>
    /\ UNCHANGED <<mux, notification_rx, heldNotif, clientAlive, nSubmitted, nNotif,
                   taken, route, submitPending>>

\* select! branch `request = request_rx.recv()` with None: every request_tx is
\* dropped and the channel is drained
OnRequestClosed ==
    /\ UNCHANGED <<procVars, initVars, wrapVars, pipeVars, launchVars>>
    /\ mux = "running"
    /\ ~clientAlive
    /\ request_rx = <<>>
    /\ MuxBreak("ok")
    /\ UNCHANGED <<notification_rx, clientAlive, wire, nSubmitted, nNotif, taken,
                   route, submitPending>>

\* the request whose frame was written last, 0 when none was written
LastSent == IF wire = <<>> THEN 0 ELSE wire[Len(wire)]

\* responses received so far that found a waiter installed
Answered == Cardinality({k \in DOMAIN route : route[k].pending # 0})

\* `response_tx.take()`: what the slot holds afterwards
TakeKeeps(rt) == rt
Take(rt) == 0

\* `Payload::Response(r)`: response_tx.take(), then send to it or break
OnResponse ==
    /\ UNCHANGED <<procVars, initVars, wrapVars, pipeVars, launchVars>>
    /\ mux = "running"
    /\ Len(route) < MaxResp
    /\ LET k == Len(route) + 1
           w == OneshotSend(waiter, response_tx, "Ok", k)
       IN  IF response_tx # 0
           THEN /\ route' = Append(route, [sent |-> LastSent,
                                           outstanding |-> Len(wire) > Answered,
                                           pending |-> response_tx])
                /\ waiter' = w
                /\ response_tx' = Take(response_tx)
                /\ UNCHANGED <<request_rx, mux, heldNotif>>
           ELSE /\ route' = Append(route, [sent |-> LastSent,
                                           outstanding |-> Len(wire) > Answered,
                                           pending |-> 0])
                /\ MuxBreak(ProtocolError)
    /\ UNCHANGED <<notification_rx, clientAlive, wire, nSubmitted, nNotif, taken,
                   submitPending>>

\* `Payload::Request(_)`
OnInboundRequest ==
    /\ UNCHANGED <<procVars, initVars, wrapVars, pipeVars, launchVars>>
    /\ mux = "running"
    /\ MuxBreak(ProtocolError)
    /\ UNCHANGED <<notification_rx, clientAlive, wire, nSubmitted, nNotif, taken,
                   route, submitPending>>

\* `Some(Err(e))`
OnInboundError ==
    /\ UNCHANGED <<procVars, initVars, wrapVars, pipeVars, launchVars>>
    /\ mux = "running"
    /\ MuxBreak("io")
    /\ UNCHANGED <<notification_rx, clientAlive, wire, nSubmitted, nNotif, taken,
                   route, submitPending>>

\* `None`: connection closed
OnEof ==
    /\ UNCHANGED <<procVars, initVars, wrapVars, pipeVars, launchVars>>
    /\ mux = "running"
    /\ MuxBreak("ok")
    /\ UNCHANGED <<notification_rx, clientAlive, wire, nSubmitted, nNotif, taken,
                   route, submitPending>>

\* `Payload::Notification(n)`: notification_tx.send(Ok(n)).await, result dropped.
\* With the receiver gone the send fails at once; with the channel full the
\* task stays in the send until a slot is free or the receiver goes away.
OnNotification ==
    /\ UNCHANGED <<procVars, initVars, wrapVars, pipeVars, launchVars>>
    /\ mux = "running"
    /\ nNotif < MaxNotif
    /\ nNotif' = nNotif + 1
    /\ IF ~clientAlive
       THEN UNCHANGED <<notification_rx, heldNotif, mux>>
       ELSE IF Len(notification_rx) < NotifCap
       THEN /\ notification_rx' = Enqueue(notification_rx, nNotif + 1)
            /\ UNCHANGED <<heldNotif, mux>>
       ELSE /\ heldNotif' = nNotif + 1
            /\ mux' = "blocked"
            /\ UNCHANGED notification_rx
    /\ UNCHANGED <<response_tx, request_rx, waiter, clientAlive, wire, nSubmitted,
                   taken, route, submitPending>>

\* the pending notification_tx.send completes
NotificationSent ==
    /\ UNCHANGED <<procVars, initVars, wrapVars, pipeVars, launchVars>>
    /\ mux = "blocked"
    /\ \/ /\ clientAlive
          /\ Len(notification_rx) < NotifCap
          /\ notification_rx' = Enqueue(notification_rx, heldNotif)
       \/ /\ ~clientAlive
          /\ UNCHANGED notification_rx
    /\ heldNotif' = 0
    /\ mux' = "running"
    /\ UNCHANGED <<response_tx, request_rx, waiter, clientAlive, wire, nSubmitted,
                   nNotif, taken, route, submitPending>>

\* Stream::poll_next of the Client yields the next notification
ClientNext ==
    /\ UNCHANGED <<procVars, initVars, wrapVars, pipeVars, launchVars>>
    /\ clientAlive
    /\ notification_rx # <<>>
    /\ taken' = Append(taken, Head(notification_rx))
    /\ notification_rx' = Tail(notification_rx)
    /\ UNCHANGED <<response_tx, request_rx, waiter, mux, heldNotif, clientAlive, wire,
                   nSubmitted, nNotif, route, submitPending>>

\* the Client is dropped: request_tx and notification_rx go away. Request
\* futures borrow the Client, so none is still awaited.
ClientDrop ==
    /\ UNCHANGED <<procVars, initVars, wrapVars, pipeVars, launchVars>>
    /\ clientAlive
    /\ \A i \in ReqIds : waiter[i] # Waiting
    /\ clientAlive' = FALSE
    /\ notification_rx' = <<>>
    /\ UNCHANGED <<response_tx, request_rx, waiter, mux, heldNotif, wire, nSubmitted,
                   nNotif, taken, route, submitPending>>

ClientNext_ ==
    \/ Submit
    \/ \E i \in ReqIds : Cancel(i)
    \/ \E sendOk \in BOOLEAN : OnRequest(sendOk)
    \/ OnRequestClosed
    \/ OnResponse
    \/ OnInboundRequest
    \/ OnInboundError
    \/ OnEof
    \/ OnNotification
    \/ NotificationSent
    \/ ClientNext
    \/ ClientDrop

InitClient == ClientInit /\ ProcIdle /\ InitIdle /\ LibIdle

SpecClient == InitClient /\ [][ClientNext_]_vars

\* the executor runs the multiplexer task whenever it can take a request or
\* complete its notification send, and the runtime answers a request that was
\* written to the connection
ClientFairness ==
    /\ WF_vars(\E sendOk \in BOOLEAN : OnRequest(sendOk))
    /\ WF_vars(NotificationSent)
    /\ WF_vars(OnResponse /\ response_tx # 0)

SpecClientLive == InitClient /\ [][ClientNext_]_vars /\ ClientFairness

(***************************************************************************)
(* Launcher and Process                                                    *)
(***************************************************************************)
\* const SIGNAL_OFFSET: i32 = 128
SIGNAL_OFFSET == 128
SIGKILL == 9
SIGTERM == 15
\* the largest number nix's Signal::try_from accepts (SIGSYS)
MaxSignal == 31

\* exit codes init terminates with: success, the largest plain code, the offset
\* without a signal, SIGTERM re-encoded, the largest code
ExitCodes == {0, SIGNAL_OFFSET - 1, SIGNAL_OFFSET, SIGNAL_OFFSET + SIGTERM, 255}

ExitStatus(kind, v) == [kind |-> kind, v |-> v]

\* an early `?` return of Launcher::create (prepare_mounts, io::from_manifest)
Create_Error ==
    /\ create = "idle"
    /\ create' = "failed"
    /\ UNCHANGED <<sigBlocked, proc, checkpoint, exit_status, io, pipeW, pipeByte, child,
                   childSid, childAcked, childStatus, spawn, killed, killResult, wt,
                   sigchld, observed, events, busOpen, waitCall, waitResult>>
    /\ UNCHANGED <<clientVars, initVars, wrapVars, pipeVars, launchVars>>

\* the runtime thread's signal mask after signals_block()
signals_block == TRUE

\* and after signals_unblock()
signals_unblockKeeps == TRUE
signals_unblock == FALSE

\* checkpoints() and signals_block()
Create_Block ==
    /\ create = "idle"
    /\ create' = "blocked"
    /\ sigBlocked' = signals_block
    /\ UNCHANGED <<proc, checkpoint, exit_status, io, pipeW, pipeByte, child,
                   childSid, childAcked, childStatus, spawn, killed, killResult, wt,
                   sigchld, observed, events, busOpen, waitCall, waitResult>>
    /\ UNCHANGED <<clientVars, initVars, wrapVars, pipeVars, launchVars>>

\* clone::clone(flags, SIGCHLD): on success parent and child both hold every end
\* of both condition pipes; on error create panics
Create_Clone(ok) ==
    /\ create = "blocked"
    /\ IF ok
       THEN /\ create' = "cloned"
            /\ child' = "cloned"
            /\ pipeW' = [a |-> {"rt", "init"}, b |-> {"rt", "init"}]
       ELSE /\ create' = "panicked"
            /\ UNCHANGED <<child, pipeW>>
    /\ UNCHANGED <<sigBlocked, proc, checkpoint, exit_status, io, pipeByte,
                   childSid, childAcked, childStatus, spawn, killed, killResult, wt,
                   sigchld, observed, events, busOpen, waitCall, waitResult>>
    /\ UNCHANGED <<clientVars, initVars, wrapVars, pipeVars, launchVars>>

\* ForkResult::Parent: signals_unblock, drop(checkpoint_init), spawn the wait
\* task, return the Process
Create_Parent ==
    /\ create = "cloned"
    /\ create' = "done"
    /\ sigBlocked' = signals_unblock
    /\ pipeW' = [pipeW EXCEPT !.a = @ \ {"rt"}]
    /\ wt' = "spawned"
    /\ proc' = "created"
    /\ checkpoint' = TRUE
    /\ exit_status' = TRUE
    /\ io' = TRUE
    /\ UNCHANGED <<pipeByte, child, childSid, childAcked, childStatus, spawn, killed,
                   killResult, sigchld, observed, events, busOpen, waitCall, waitResult>>
    /\ UNCHANGED <<clientVars, initVars, wrapVars, pipeVars, launchVars>>

\* ForkResult::Child: drop(checkpoint_runtime), then checkpoint_init.wait()
Child_DropRuntimeHalf ==
    /\ child = "cloned"
    /\ child' = "waiting"
    /\ pipeW' = [pipeW EXCEPT !.b = @ \ {"init"}]
    /\ UNCHANGED <<create, sigBlocked, proc, checkpoint, exit_status, io, pipeByte,
                   childSid, childAcked, childStatus, spawn, killed, killResult, wt,
                   sigchld, observed, events, busOpen, waitCall, waitResult>>
    /\ UNCHANGED <<clientVars, initVars, wrapVars, pipeVars, launchVars>>

\* ConditionWait::wait: the blocking read of one byte returns when the byte
\* was written or when every write end of the pipe is closed
Readable(p) == pipeByte[p] \/ pipeW[p] = {}

\* checkpoints(): (Checkpoint(aw, bn), Checkpoint(bw, an)), the half of the
\* runtime and the half of init, each with the pipe it waits on and the pipe
\* it notifies
RuntimeHalfOnePipe == [wait |-> "a", notify |-> "a"]
RuntimeHalf == [wait |-> "a", notify |-> "b"]
InitHalf == [wait |-> "b", notify |-> "a"]

\* ConditionNotify::notify on pipe p by `who`: the byte is written and the
\* write end, consumed by the call, is closed
NotifyByte(p) == [pipeByte EXCEPT ![p] = TRUE]
NotifyClose(p, who) == [pipeW EXCEPT ![p] = @ \ {who}]

\* checkpoint_init.wait() returns, init.run starts
Child_Start ==
    /\ child = "waiting"
    /\ Readable(InitHalf.wait)
    /\ child' = "started"
    /\ UNCHANGED <<create, sigBlocked, proc, checkpoint, exit_status, io, pipeW, pipeByte,
                   childSid, childAcked, childStatus, spawn, killed, killResult, wt,
                   sigchld, observed, events, busOpen, waitCall, waitResult>>
    /\ UNCHANGED <<clientVars, initVars, wrapVars, pipeVars, launchVars>>

\* init becomes a session leader: the process group `pid` exists from here on
Child_Setsid ==
    /\ child = "started"
    /\ ~childSid
    /\ childSid' = TRUE
    /\ UNCHANGED <<create, sigBlocked, proc, checkpoint, exit_status, io, pipeW, pipeByte,
                   child, childAcked, childStatus, spawn, killed, killResult, wt,
                   sigchld, observed, events, busOpen, waitCall, waitResult>>
    /\ UNCHANGED <<clientVars, initVars, wrapVars, pipeVars, launchVars>>

\* init acknowledges the start: condition_notify.notify()
Child_Notify ==
    /\ child = "started"
    /\ ~childAcked
    /\ childAcked' = TRUE
    /\ pipeByte' = NotifyByte(InitHalf.notify)
    /\ pipeW' = NotifyClose(InitHalf.notify, "init")
    /\ UNCHANGED <<create, sigBlocked, proc, checkpoint, exit_status, io,
                   child, childSid, childStatus, spawn, killed, killResult, wt,
                   sigchld, observed, events, busOpen, waitCall, waitResult>>
    /\ UNCHANGED <<clientVars, initVars, wrapVars, pipeVars, launchVars>>

\* the child terminates: it becomes a zombie, its descriptors are closed and
\* SIGCHLD is raised in the runtime; only a registered signal stream sees it
Dies(status) ==
    /\ child' = "zombie"
    /\ childStatus' = status
    /\ pipeW' = [a |-> pipeW.a \ {"init"}, b |-> pipeW.b \ {"init"}]
    /\ sigchld' = IF wt = "listening" THEN TRUE ELSE sigchld

\* init exits with `code`
Child_Exit(code) ==
    /\ child = "started"
    /\ Dies(ExitStatus("Exited", code))
    /\ UNCHANGED <<create, sigBlocked, proc, checkpoint, exit_status, io, pipeByte,
                   childSid, childAcked, spawn, killed, killResult, wt,
                   observed, events, busOpen, waitCall, waitResult>>
    /\ UNCHANGED <<clientVars, initVars, wrapVars, pipeVars, launchVars>>

\* another child of the runtime terminated: SIGCHLD without a change of `pid`
Other_Sigchld ==
    /\ wt = "listening"
    /\ ~sigchld
    /\ sigchld' = TRUE
    /\ UNCHANGED <<create, sigBlocked, proc, checkpoint, exit_status, io, pipeW, pipeByte,
                   child, childSid, childAcked, childStatus, spawn, killed, killResult,
                   wt, observed, events, busOpen, waitCall, waitResult>>
    /\ UNCHANGED <<clientVars, initVars, wrapVars, pipeVars, launchVars>>

\* the process group `pid` has a member
GroupExists == childSid /\ child \in {"started", "zombie"}

\* no operation of the Process is in progress (they take &mut self)
ProcFree == proc = "created" /\ spawn # "awaiting" /\ waitCall # "awaiting"

\* self.checkpoint after checkpoint.take()
TakeCheckpointKeeps(c) == c
TakeCheckpoint(c) == FALSE

\* Process::spawn up to the await: checkpoint.take().expect(..), checkpoint.notify()
Spawn_Notify ==
    /\ ProcFree
    /\ IF checkpoint
       THEN /\ checkpoint' = TakeCheckpoint(checkpoint)
            /\ pipeByte' = NotifyByte(RuntimeHalf.notify)
            /\ pipeW' = NotifyClose(RuntimeHalf.notify, "rt")
            /\ spawn' = "awaiting"
       ELSE /\ spawn' = "panicked"
            /\ UNCHANGED <<checkpoint, pipeByte, pipeW>>
    /\ UNCHANGED <<create, sigBlocked, proc, exit_status, io, child, childSid,
                   childAcked, childStatus, killed, killResult, wt,
                   sigchld, observed, events, busOpen, waitCall, waitResult>>
    /\ UNCHANGED <<clientVars, initVars, wrapVars, pipeVars, launchVars>>

\* wait.async_wait() completes before the deadline
Spawn_Ack ==
    /\ spawn = "awaiting"
    /\ Readable(RuntimeHalf.wait)
    /\ spawn' = "done"
    /\ UNCHANGED <<create, sigBlocked, proc, checkpoint, exit_status, io, pipeW, pipeByte,
                   child, childSid, childAcked, childStatus, killed, killResult, wt,
                   sigchld, observed, events, busOpen, waitCall, waitResult>>
    /\ UNCHANGED <<clientVars, initVars, wrapVars, pipeVars, launchVars>>

\* the signals sent so far and the one of the deadline branch: kill(-pid, SIGKILL)
DeadlineKillNone(sofar) == sofar
DeadlineKill(sofar) == Append(sofar, [sig |-> SIGKILL, by |-> "spawn", delivered |-> GroupExists])

\* the 5 second deadline passes: time::timeout polls wait.async_wait() first,
\* so this branch is taken only while the acknowledgement is not there;
\* kill(-pid, SIGKILL).ok(), then Ok(())
Spawn_Timeout ==
    /\ spawn = "awaiting"
    /\ ~Readable(RuntimeHalf.wait)
    /\ spawn' = "done"
    /\ killed' = DeadlineKill(killed)
    /\ IF GroupExists /\ child = "started"
       THEN Dies(ExitStatus("Signaled", SIGKILL))
       ELSE UNCHANGED <<child, childStatus, pipeW, sigchld>>
    /\ UNCHANGED <<create, sigBlocked, proc, checkpoint, exit_status, io, pipeByte,
                   childSid, childAcked, killResult, wt,
                   observed, events, busOpen, waitCall, waitResult>>
    /\ UNCHANGED <<clientVars, initVars, wrapVars, pipeVars, launchVars>>

\* the errno of kill(-pid, signal): ESRCH when the group -pid has no member,
\* otherwise none or the error the kernel reports
KillErrno(errno) == IF GroupExists THEN errno ELSE "ESRCH"

\* the result of Process::kill for the errno of kill(2)
KillResultStrict(errno) == IF errno = "none" THEN "Ok" ELSE "Os"
KillResult(errno) == IF errno \in {"none", "ESRCH"} THEN "Ok" ELSE "Os"

\* Process::kill(signal): kill(-pid, signal). ESRCH is Ok, another errno is
\* Error::Os. SIGKILL ends init; for another signal `dies` says whether init
\* terminates on it.
Kill(sig, errno, dies) ==
    /\ ProcFree
    /\ Len(killed) < MaxKills
    /\ killResult' = [errno |-> KillErrno(errno), result |-> KillResult(KillErrno(errno))]
    /\ IF KillErrno(errno) \in {"none", "ESRCH"}
       THEN /\ killed' = Append(killed, [sig |-> sig, by |-> "kill", delivered |-> GroupExists])
            /\ IF GroupExists /\ child = "started" /\ (sig = SIGKILL \/ dies)
               THEN Dies(ExitStatus("Signaled", sig))
               ELSE UNCHANGED <<child, childStatus, pipeW, sigchld>>
       ELSE UNCHANGED <<killed, child, childStatus, pipeW, sigchld>>
    /\ UNCHANGED <<create, sigBlocked, proc, checkpoint, exit_status, io, pipeByte,
                   childSid, childAcked, spawn, wt,
                   observed, events, busOpen, waitCall, waitResult>>
    /\ UNCHANGED <<clientVars, initVars, wrapVars, pipeVars, launchVars>>

\* Process::wait up to the await: exit_status.take().expect("Wait called twice")
Wait_Call ==
    /\ ProcFree
    /\ IF exit_status
       THEN exit_status' = FALSE /\ waitCall' = "awaiting"
       ELSE waitCall' = "panicked" /\ UNCHANGED exit_status
    /\ UNCHANGED <<create, sigBlocked, proc, checkpoint, io, pipeW, pipeByte,
                   child, childSid, childAcked, childStatus, spawn, killed, killResult, wt,
                   sigchld, observed, events, busOpen, waitResult>>
    /\ UNCHANGED <<clientVars, initVars, wrapVars, pipeVars, launchVars>>

\* Process::destroy: stops the log tails
Destroy ==
    /\ ProcFree
    /\ io
    /\ io' = FALSE
    /\ UNCHANGED <<create, sigBlocked, proc, checkpoint, exit_status, pipeW, pipeByte,
                   child, childSid, childAcked, childStatus, spawn, killed, killResult, wt,
                   sigchld, observed, events, busOpen, waitCall, waitResult>>
    /\ UNCHANGED <<clientVars, initVars, wrapVars, pipeVars, launchVars>>

\* the Process is dropped: its checkpoint half, if still held, is closed; the
\* wait task is detached and keeps running
Drop_Process ==
    /\ ProcFree
    /\ proc' = "dropped"
    /\ checkpoint' = FALSE
    /\ exit_status' = FALSE
    /\ io' = FALSE
    /\ pipeW' = IF checkpoint THEN [pipeW EXCEPT !.b = @ \ {"rt"}] ELSE pipeW
    /\ UNCHANGED <<create, sigBlocked, pipeByte,
                   child, childSid, childAcked, childStatus, spawn, killed, killResult, wt,
                   sigchld, observed, events, busOpen, waitCall, waitResult>>
    /\ UNCHANGED <<clientVars, initVars, wrapVars, pipeVars, launchVars>>

\* the wait task runs for the first time: signal(SignalKind::child())
Wt_Register ==
    /\ wt = "spawned"
    /\ wt' = "listening"
    /\ UNCHANGED <<create, sigBlocked, proc, checkpoint, exit_status, io, pipeW, pipeByte,
                   child, childSid, childAcked, childStatus, spawn, killed, killResult,
                   sigchld, observed, events, busOpen, waitCall, waitResult>>
    /\ UNCHANGED <<clientVars, initVars, wrapVars, pipeVars, launchVars>>

\* Signal::try_from
ValidSignal(n) == n \in 1..MaxSignal

\* exit_status(pid) for a terminated child: the ExitStatus, or "Panic" for the
\* expect("Invalid signal offset")
ToExitStatus(ws) ==
    IF ws.kind = "Exited"
    THEN IF SIGNAL_OFFSET <= ws.v
         THEN IF ValidSignal(ws.v - SIGNAL_OFFSET)
              THEN ExitStatus("Signaled", ws.v - SIGNAL_OFFSET)
              ELSE ExitStatus("Panic", 0)
         ELSE ExitStatus("Exit", ws.v)
    ELSE ExitStatus("Signaled", ws.v)

\* sigchld.recv() returns and exit_status(pid) polls waitpid(pid, WNOHANG):
\* a zombie is reaped and its status ends the loop, StillAlive continues it,
\* ECHILD panics
Wt_Poll ==
    /\ wt = "listening"
    /\ sigchld
    /\ sigchld' = FALSE
    /\ IF child = "zombie"
       THEN /\ child' = "reaped"
            /\ IF ToExitStatus(childStatus).kind = "Panic"
               THEN wt' = "panicked" /\ UNCHANGED observed
               ELSE wt' = "sending" /\ observed' = Append(observed, ToExitStatus(childStatus))
       ELSE IF child \in {"cloned", "waiting", "started"}
       THEN UNCHANGED <<child, wt, observed>>
       ELSE wt' = "panicked" /\ UNCHANGED <<child, observed>>
    /\ UNCHANGED <<create, sigBlocked, proc, checkpoint, exit_status, io, pipeW, pipeByte,
                   childSid, childAcked, childStatus, spawn, killed, killResult,
                   events, busOpen, waitCall, waitResult>>
    /\ UNCHANGED <<clientVars, initVars, wrapVars, pipeVars, launchVars>>

\* the value the wait task's future resolves to
ResolvedDefault(st) == ExitStatus("Exit", 0)
Resolved(st) == st

\* drop(tx.send(Event::Exit(container, exit_status)).await), then the task ends
Wt_Send ==
    /\ wt = "sending"
    /\ events' = IF busOpen THEN Append(events, observed[Len(observed)]) ELSE events
    /\ wt' = "done"
    /\ UNCHANGED <<create, sigBlocked, proc, checkpoint, exit_status, io, pipeW, pipeByte,
                   child, childSid, childAcked, childStatus, spawn, killed, killResult,
                   sigchld, observed, busOpen, waitCall, waitResult>>
    /\ UNCHANGED <<clientVars, initVars, wrapVars, pipeVars, launchVars>>

\* `exit_status.await` in Process::wait completes; a panicked task is a join error
Wait_Return ==
    /\ waitCall = "awaiting"
    /\ wt \in {"done", "panicked"}
    /\ IF wt = "done"
       THEN waitCall' = "returned" /\ waitResult' = Resolved(observed[Len(observed)])
       ELSE waitCall' = "panicked" /\ UNCHANGED waitResult
    /\ UNCHANGED <<create, sigBlocked, proc, checkpoint, exit_status, io, pipeW, pipeByte,
                   child, childSid, childAcked, childStatus, spawn, killed, killResult, wt,
                   sigchld, observed, events, busOpen>>
    /\ UNCHANGED <<clientVars, initVars, wrapVars, pipeVars, launchVars>>

\* the receiver of the event bus goes away
Bus_Close ==
    /\ busOpen
    /\ busOpen' = FALSE
    /\ UNCHANGED <<create, sigBlocked, proc, checkpoint, exit_status, io, pipeW, pipeByte,
                   child, childSid, childAcked, childStatus, spawn, killed, killResult, wt,
                   sigchld, observed, events, waitCall, waitResult>>
    /\ UNCHANGED <<clientVars, initVars, wrapVars, pipeVars, launchVars>>

ProcNext ==
    \/ Create_Error
    \/ Create_Block
    \/ \E ok \in BOOLEAN : Create_Clone(ok)
    \/ Create_Parent
    \/ Child_DropRuntimeHalf
    \/ Child_Start
    \/ Child_Setsid
    \/ Child_Notify
    \/ \E code \in ExitCodes : Child_Exit(code)
    \/ Other_Sigchld
    \/ Spawn_Notify
    \/ Spawn_Ack
    \/ Spawn_Timeout
    \/ \E sig \in {SIGTERM, SIGKILL}, errno \in {"none", "EPERM"}, dies \in BOOLEAN :
          Kill(sig, errno, dies)
    \/ Wait_Call
    \/ Destroy
    \/ Drop_Process
    \/ Wt_Register
    \/ Wt_Poll
    \/ Wt_Send
    \/ Wait_Return
    \/ Bus_Close

InitProc == ProcIdle /\ ClientInit /\ InitIdle /\ LibIdle

SpecProc == InitProc /\ [][ProcNext]_vars

\* the executor of the runtime runs every task that can make progress: the wait
\* task (its first poll, its wake-up by the signal stream, its send) and the
\* caller awaiting Process::wait
ProcFairness ==
    /\ WF_vars(Wt_Register)
    /\ WF_vars(Wt_Poll)
    /\ WF_vars(Wt_Send)
    /\ WF_vars(Wait_Return)

SpecProcLive == InitProc /\ [][ProcNext]_vars /\ ProcFairness

(***************************************************************************)
(* Init                                                                    *)
(***************************************************************************)
\* the uid of an unprivileged runtime or container
UserUid == 1000

\* the setup steps of Init::run in the order of its statements
SetupOrder == <<"subreaper", "rename", "setsid", "netns", "unshare", "mount", "chroot",
                "chdir", "ids", "groups", "rlimits", "nnp", "caps">>

\* the descriptors init may receive for stdin, stdout, stderr
IoChoices == {<<3, 4, 5>>, <<0, 1, 2>>}

\* the capability bounding sets init may start with
BoundingChoices == {Caps, Caps \ {"CAP_SYS_ADMIN"}, {}}

\* pids fork may return for the payload
Pids == {2, 3}

\* Init::run is entered with a descriptor; the process has the runtime's
\* credentials: every capability when it runs as root, none otherwise
InitInit ==
    /\ desc \in [netns : {"none", "missing", "present"}, mounts : 0..MaxMounts,
                 uid : {0, UserUid}, capabilities : SUBSET Caps,
                 rlimits : 0..MaxRlimits, seccomp : BOOLEAN, console : BOOLEAN]
    /\ ipc = "subreaper"
    /\ done = <<>>
    /\ failed = "none"
    /\ mounted = 0
    /\ limited = 0
    /\ euid \in {0, UserUid}
    /\ keepcaps = FALSE
    /\ nnp = FALSE
    /\ \E b0 \in BoundingChoices :
          caps = [e |-> IF euid = 0 THEN Caps ELSE {}, p |-> IF euid = 0 THEN Caps ELSE {},
                  i |-> {}, a |-> {}, b |-> b0]
    /\ netnsAttached = FALSE
    /\ ifilter = FALSE
    /\ sent = <<>>
    /\ env = {}
    /\ iofd = <<>>
    /\ ioOpen = FALSE
    /\ consoleOpen = desc.console
    /\ pid = 0
    /\ waited = FALSE
    /\ pay = "none"
    /\ payk = 0
    /\ ptrace = <<>>
    /\ pfd = [f \in Fds |-> "none"]
    /\ pfilter = FALSE
    /\ pstatus = NoStatus

\* `.expect(..)`: the statement init executes next after a fallible call
ExpectIgnored(ok, next) == next
Expect(ok, next) == IF ok THEN next ELSE "aborted"

\* history of the failure init met
Failure(ok, step) == IF ok THEN failed ELSE step

\* set_child_subreaper(true)
Init_Subreaper ==
    /\ ipc = "subreaper"
    /\ ipc' = "rename"
    /\ done' = Append(done, "subreaper")
    /\ UNCHANGED <<desc, failed, mounted, limited, euid, keepcaps, nnp, caps,
                   netnsAttached, ifilter, sent, env, iofd, ioOpen, consoleOpen, pid,
                   waited, pay, payk, ptrace, pfd, pfilter, pstatus>>
    /\ UNCHANGED <<clientVars, procVars, wrapVars, pipeVars, launchVars>>

\* set_process_name("init-<container>")
Init_Rename ==
    /\ ipc = "rename"
    /\ ipc' = "setsid"
    /\ done' = Append(done, "rename")
    /\ UNCHANGED <<desc, failed, mounted, limited, euid, keepcaps, nnp, caps,
                   netnsAttached, ifilter, sent, env, iofd, ioOpen, consoleOpen, pid,
                   waited, pay, payk, ptrace, pfd, pfilter, pstatus>>
    /\ UNCHANGED <<clientVars, procVars, wrapVars, pipeVars, launchVars>>

\* unistd::setsid().expect(..)
Init_Setsid(ok) ==
    /\ ipc = "setsid"
    /\ ipc' = Expect(ok, "netns")
    /\ failed' = Failure(ok, "setsid")
    /\ done' = IF ok THEN Append(done, "setsid") ELSE done
    /\ UNCHANGED <<desc, mounted, limited, euid, keepcaps, nnp, caps, netnsAttached,
                   ifilter, sent, env, iofd, ioOpen, consoleOpen, pid, waited, pay, payk,
                   ptrace, pfd, pfilter, pstatus>>
    /\ UNCHANGED <<clientVars, procVars, wrapVars, pipeVars, launchVars>>

\* `if let Some(netns)` and `path.exists()` of the entry at the well-known path
PathExistsAny(netns) == netns # "none"
PathExists(netns) == netns = "present"

\* self.enter_netns(): without a configured name, or without the entry at the
\* well-known path, nothing is attached; with it, open and setns must succeed
Init_Netns(ok) ==
    /\ ipc = "netns"
    /\ IF PathExists(desc.netns)
       THEN /\ ipc' = Expect(ok, "unshare")
            /\ failed' = Failure(ok, "netns")
            /\ netnsAttached' = ok
            /\ done' = IF ok THEN Append(done, "netns") ELSE done
       ELSE /\ ok
            /\ ipc' = "unshare"
            /\ done' = Append(done, "netns")
            /\ UNCHANGED <<failed, netnsAttached>>
    /\ UNCHANGED <<desc, mounted, limited, euid, keepcaps, nnp, caps, ifilter, sent, env,
                   iofd, ioOpen, consoleOpen, pid, waited, pay, payk, ptrace, pfd,
                   pfilter, pstatus>>
    /\ UNCHANGED <<clientVars, procVars, wrapVars, pipeVars, launchVars>>

\* unshare(CLONE_NEWNS).expect(..)
Init_Unshare(ok) ==
    /\ ipc = "unshare"
    /\ ipc' = Expect(ok, "mount")
    /\ failed' = Failure(ok, "unshare")
    /\ done' = IF ok THEN Append(done, "unshare") ELSE done
    /\ UNCHANGED <<desc, mounted, limited, euid, keepcaps, nnp, caps, netnsAttached,
                   ifilter, sent, env, iofd, ioOpen, consoleOpen, pid, waited, pay, payk,
                   ptrace, pfd, pfilter, pstatus>>
    /\ UNCHANGED <<clientVars, procVars, wrapVars, pipeVars, launchVars>>

\* `for mount in &self.mounts`: the index of the mount after mount k
NextMountSkips(k) == k + 2
NextMount(k) == k + 1

\* self.mount(): one iteration, Mount::mount with .expect(&self.error_msg)
Init_Mount(ok) ==
    /\ ipc = "mount"
    /\ mounted < desc.mounts
    /\ ipc' = Expect(ok, "mount")
    /\ failed' = Failure(ok, "mount")
    /\ mounted' = IF ok THEN NextMount(mounted) ELSE mounted
    /\ UNCHANGED <<desc, done, limited, euid, keepcaps, nnp, caps, netnsAttached, ifilter,
                   sent, env, iofd, ioOpen, consoleOpen, pid, waited, pay, payk, ptrace,
                   pfd, pfilter, pstatus>>
    /\ UNCHANGED <<clientVars, procVars, wrapVars, pipeVars, launchVars>>

\* self.mount(): the loop over self.mounts ends
Init_MountDone ==
    /\ ipc = "mount"
    /\ mounted = desc.mounts
    /\ ipc' = "chroot"
    /\ done' = Append(done, "mount")
    /\ UNCHANGED <<desc, failed, mounted, limited, euid, keepcaps, nnp, caps,
                   netnsAttached, ifilter, sent, env, iofd, ioOpen, consoleOpen, pid,
                   waited, pay, payk, ptrace, pfd, pfilter, pstatus>>
    /\ UNCHANGED <<clientVars, procVars, wrapVars, pipeVars, launchVars>>

\* unistd::chroot(&self.root).expect(..)
Init_Chroot(ok) ==
    /\ ipc = "chroot"
    /\ ipc' = Expect(ok, "chdir")
    /\ failed' = Failure(ok, "chroot")
    /\ done' = IF ok THEN Append(done, "chroot") ELSE done
    /\ UNCHANGED <<desc, mounted, limited, euid, keepcaps, nnp, caps, netnsAttached,
                   ifilter, sent, env, iofd, ioOpen, consoleOpen, pid, waited, pay, payk,
                   ptrace, pfd, pfilter, pstatus>>
    /\ UNCHANGED <<clientVars, procVars, wrapVars, pipeVars, launchVars>>

\* env::set_current_dir("/").expect(..)
Init_Chdir(ok) ==
    /\ ipc = "chdir"
    /\ ipc' = Expect(ok, "ids")
    /\ failed' = Failure(ok, "chdir")
    /\ done' = IF ok THEN Append(done, "chdir") ELSE done
    /\ UNCHANGED <<desc, mounted, limited, euid, keepcaps, nnp, caps, netnsAttached,
                   ifilter, sent, env, iofd, ioOpen, consoleOpen, pid, waited, pay, payk,
                   ptrace, pfd, pfilter, pstatus>>
    /\ UNCHANGED <<clientVars, procVars, wrapVars, pipeVars, launchVars>>

\* set_ids: `let rt_privileged = unistd::geteuid() == Uid::from_raw(0)`
PrivilegedNever(uid) == FALSE
Privileged(uid) == uid = 0

\* set_ids: `if rt_privileged { set_keepcaps(true) }`
Init_KeepCaps(ok) ==
    /\ ipc = "ids"
    /\ IF Privileged(euid)
       THEN /\ ipc' = Expect(ok, "setresgid")
            /\ failed' = Failure(ok, "ids")
            /\ keepcaps' = IF ok THEN TRUE ELSE keepcaps
       ELSE /\ ok
            /\ ipc' = "setresgid"
            /\ UNCHANGED <<failed, keepcaps>>
    /\ UNCHANGED <<desc, done, mounted, limited, euid, nnp, caps, netnsAttached, ifilter,
                   sent, env, iofd, ioOpen, consoleOpen, pid, waited, pay, payk, ptrace,
                   pfd, pfilter, pstatus>>
    /\ UNCHANGED <<clientVars, procVars, wrapVars, pipeVars, launchVars>>

\* set_ids: setresgid(gid, gid, gid).expect(..)
Init_Setresgid(ok) ==
    /\ ipc = "setresgid"
    /\ ipc' = Expect(ok, "setresuid")
    /\ failed' = Failure(ok, "ids")
    /\ UNCHANGED <<desc, done, mounted, limited, euid, keepcaps, nnp, caps, netnsAttached,
                   ifilter, sent, env, iofd, ioOpen, consoleOpen, pid, waited, pay, payk,
                   ptrace, pfd, pfilter, pstatus>>
    /\ UNCHANGED <<clientVars, procVars, wrapVars, pipeVars, launchVars>>

\* the capability sets after setresuid: leaving uid 0 clears the effective and
\* ambient sets, and the permitted set too unless keep-caps is set
AfterSetresuid(c, from, to, keep) ==
    IF from = 0 /\ to # 0
    THEN [c EXCEPT !.e = {}, !.a = IF keep THEN @ ELSE {}, !.p = IF keep THEN @ ELSE {}]
    ELSE c

\* set_ids: setresuid(uid, uid, uid).expect(..); an unprivileged process can
\* only keep its uid
Init_Setresuid(ok) ==
    /\ ipc = "setresuid"
    /\ ok => (euid = 0 \/ desc.uid = euid)
    /\ ipc' = Expect(ok, "ids_reset")
    /\ failed' = Failure(ok, "ids")
    /\ euid' = IF ok THEN desc.uid ELSE euid
    /\ caps' = IF ok THEN AfterSetresuid(caps, euid, desc.uid, keepcaps) ELSE caps
    /\ UNCHANGED <<desc, done, mounted, limited, keepcaps, nnp, netnsAttached, ifilter,
                   sent, env, iofd, ioOpen, consoleOpen, pid, waited, pay, payk, ptrace,
                   pfd, pfilter, pstatus>>
    /\ UNCHANGED <<clientVars, procVars, wrapVars, pipeVars, launchVars>>

\* capset(2) with one set replaced: whether the kernel permits it
CapSetPermitted(c, which, set) ==
    CASE which = "e" -> set \subseteq c.p
      [] which = "p" -> set \subseteq c.p /\ c.e \subseteq set
      [] which = "i" -> /\ set \subseteq (c.i \cup c.b)
                        /\ ("CAP_SETPCAP" \in c.e \/ set \subseteq (c.i \cup c.p))
      [] which = "a" -> set \subseteq (c.p \cap c.i)

\* capset(2) with one set replaced: the sets after it; lowering the permitted
\* or the inheritable set lowers the ambient set with it
CapSet(c, which, set) ==
    CASE which = "e" -> [c EXCEPT !.e = set]
      [] which = "p" -> [c EXCEPT !.p = set, !.a = @ \cap set]
      [] which = "i" -> [c EXCEPT !.i = set, !.a = @ \cap set]
      [] which = "a" -> [c EXCEPT !.a = set]

\* set_ids: `if rt_privileged { self.reset_effective_caps() }` is caps::set of
\* the effective set to caps::all(); rt_privileged was read before setresuid
Init_ResetEffective(ok) ==
    /\ ipc = "ids_reset"
    /\ IF keepcaps
       THEN /\ ok => CapSetPermitted(caps, "e", Caps)
            /\ ipc' = Expect(ok, "ids_keep")
            /\ failed' = Failure(ok, "ids")
            /\ caps' = IF ok THEN CapSet(caps, "e", Caps) ELSE caps
       ELSE /\ ok
            /\ ipc' = "ids_keep"
            /\ UNCHANGED <<failed, caps>>
    /\ UNCHANGED <<desc, done, mounted, limited, euid, keepcaps, nnp, netnsAttached,
                   ifilter, sent, env, iofd, ioOpen, consoleOpen, pid, waited, pay, payk,
                   ptrace, pfd, pfilter, pstatus>>
    /\ UNCHANGED <<clientVars, procVars, wrapVars, pipeVars, launchVars>>

\* set_ids: `if rt_privileged { set_keepcaps(false) }`
Init_ClearKeepCaps(ok) ==
    /\ ipc = "ids_keep"
    /\ IF keepcaps
       THEN /\ ipc' = Expect(ok, "groups")
            /\ failed' = Failure(ok, "ids")
            /\ keepcaps' = IF ok THEN FALSE ELSE keepcaps
            /\ done' = IF ok THEN Append(done, "ids") ELSE done
       ELSE /\ ok
            /\ ipc' = "groups"
            /\ done' = Append(done, "ids")
            /\ UNCHANGED <<failed, keepcaps>>
    /\ UNCHANGED <<desc, mounted, limited, euid, nnp, caps, netnsAttached, ifilter, sent,
                   env, iofd, ioOpen, consoleOpen, pid, waited, pay, payk, ptrace, pfd,
                   pfilter, pstatus>>
    /\ UNCHANGED <<clientVars, procVars, wrapVars, pipeVars, launchVars>>

\* self.set_groups(): setgroups with .expect(..)
Init_Groups(ok) ==
    /\ ipc = "groups"
    /\ ipc' = Expect(ok, "rlimits")
    /\ failed' = Failure(ok, "groups")
    /\ done' = IF ok THEN Append(done, "groups") ELSE done
    /\ UNCHANGED <<desc, mounted, limited, euid, keepcaps, nnp, caps, netnsAttached,
                   ifilter, sent, env, iofd, ioOpen, consoleOpen, pid, waited, pay, payk,
                   ptrace, pfd, pfilter, pstatus>>
    /\ UNCHANGED <<clientVars, procVars, wrapVars, pipeVars, launchVars>>

\* self.set_rlimits(): one iteration, resource.set(..).expect(..)
Init_Rlimit(ok) ==
    /\ ipc = "rlimits"
    /\ limited < desc.rlimits
    /\ ipc' = Expect(ok, "rlimits")
    /\ failed' = Failure(ok, "rlimits")
    /\ limited' = IF ok THEN limited + 1 ELSE limited
    /\ UNCHANGED <<desc, done, mounted, euid, keepcaps, nnp, caps, netnsAttached, ifilter,
                   sent, env, iofd, ioOpen, consoleOpen, pid, waited, pay, payk, ptrace,
                   pfd, pfilter, pstatus>>
    /\ UNCHANGED <<clientVars, procVars, wrapVars, pipeVars, launchVars>>

\* the statement after self.set_rlimits()
AfterRlimitsSkipsNnp == "bounding"
AfterRlimits == "nnp"

\* self.set_rlimits(): the loop over self.rlimits ends
Init_RlimitsDone ==
    /\ ipc = "rlimits"
    /\ limited = desc.rlimits
    /\ ipc' = AfterRlimits
    /\ done' = Append(done, "rlimits")
    /\ UNCHANGED <<desc, failed, mounted, limited, euid, keepcaps, nnp, caps,
                   netnsAttached, ifilter, sent, env, iofd, ioOpen, consoleOpen, pid,
                   waited, pay, payk, ptrace, pfd, pfilter, pstatus>>
    /\ UNCHANGED <<clientVars, procVars, wrapVars, pipeVars, launchVars>>

\* Self::set_no_new_privs(true): prctl(PR_SET_NO_NEW_PRIVS, 1) with .expect(..)
Init_NoNewPrivs(ok) ==
    /\ ipc = "nnp"
    /\ ipc' = Expect(ok, "bounding")
    /\ failed' = Failure(ok, "nnp")
    /\ nnp' = IF ok THEN TRUE ELSE nnp
    /\ done' = IF ok THEN Append(done, "nnp") ELSE done
    /\ UNCHANGED <<desc, mounted, limited, euid, keepcaps, caps, netnsAttached, ifilter,
                   sent, env, iofd, ioOpen, consoleOpen, pid, waited, pay, payk, ptrace,
                   pfd, pfilter, pstatus>>
    /\ UNCHANGED <<clientVars, procVars, wrapVars, pipeVars, launchVars>>

\* `bounded.retain(|c| !set.contains(c))`: the capabilities to drop from the
\* bounding set
BoundedKept(bounding, set) == bounding \cap set
Bounded(bounding, set) == bounding \ set

\* drop_privileges: caps::read(None, Bounding).expect(..) and caps::drop(None,
\* Bounding, cap).expect(..) for every cap of `bounded`; PR_CAPBSET_DROP needs
\* CAP_SETPCAP in the effective set
Init_DropBounding(ok) ==
    /\ ipc = "bounding"
    /\ LET bounded == Bounded(caps.b, desc.capabilities) IN
        /\ ok => (bounded = {} \/ "CAP_SETPCAP" \in caps.e)
        /\ ipc' = Expect(ok, "caps_e")
        /\ failed' = Failure(ok, "caps")
        /\ caps' = IF ok THEN [caps EXCEPT !.b = @ \ bounded] ELSE caps
    /\ UNCHANGED <<desc, done, mounted, limited, euid, keepcaps, nnp, netnsAttached,
                   ifilter, sent, env, iofd, ioOpen, consoleOpen, pid, waited, pay, payk,
                   ptrace, pfd, pfilter, pstatus>>
    /\ UNCHANGED <<clientVars, procVars, wrapVars, pipeVars, launchVars>>

\* the capability set the caps::set call at statement `pc` writes, and the
\* statement after it
CapSetAt(pc) ==
    CASE pc = "caps_e" -> [which |-> "e", next |-> "caps_p"]
      [] pc = "caps_p" -> [which |-> "p", next |-> "caps_i"]
      [] pc = "caps_i" -> [which |-> "i", next |-> "caps_a"]
      [] pc = "caps_a" -> [which |-> "a", next |-> "recv"]

\* drop_privileges: caps::set(None, Effective | Permitted | Inheritable |
\* Ambient, &set).expect(..)
Init_CapSet(ok) ==
    /\ ipc \in {"caps_e", "caps_p", "caps_i", "caps_a"}
    /\ LET at == CapSetAt(ipc)
           new == CapSet(caps, at.which, desc.capabilities)
       IN  /\ ok => CapSetPermitted(caps, at.which, desc.capabilities)
           /\ ipc' = Expect(ok, at.next)
           /\ failed' = Failure(ok, "caps")
           /\ caps' = IF ok THEN new ELSE caps
           /\ done' = IF ok /\ ipc = "caps_a" THEN Append(done, "caps") ELSE done
    /\ UNCHANGED <<desc, mounted, limited, euid, keepcaps, nnp, netnsAttached, ifilter,
                   sent, env, iofd, ioOpen, consoleOpen, pid, waited, pay, payk, ptrace,
                   pfd, pfilter, pstatus>>
    /\ UNCHANGED <<clientVars, procVars, wrapVars, pipeVars, launchVars>>

SetupNext ==
    \/ Init_Subreaper
    \/ Init_Rename
    \/ \E ok \in BOOLEAN : Init_Setsid(ok)
    \/ \E ok \in BOOLEAN : Init_Netns(ok)
    \/ \E ok \in BOOLEAN : Init_Unshare(ok)
    \/ \E ok \in BOOLEAN : Init_Mount(ok)
    \/ Init_MountDone
    \/ \E ok \in BOOLEAN : Init_Chroot(ok)
    \/ \E ok \in BOOLEAN : Init_Chdir(ok)
    \/ \E ok \in BOOLEAN : Init_KeepCaps(ok)
    \/ \E ok \in BOOLEAN : Init_Setresgid(ok)
    \/ \E ok \in BOOLEAN : Init_Setresuid(ok)
    \/ \E ok \in BOOLEAN : Init_ResetEffective(ok)
    \/ \E ok \in BOOLEAN : Init_ClearKeepCaps(ok)
    \/ \E ok \in BOOLEAN : Init_Groups(ok)
    \/ \E ok \in BOOLEAN : Init_Rlimit(ok)
    \/ Init_RlimitsDone
    \/ \E ok \in BOOLEAN : Init_NoNewPrivs(ok)
    \/ \E ok \in BOOLEAN : Init_DropBounding(ok)
    \/ \E ok \in BOOLEAN : Init_CapSet(ok)

\* init is no longer running: it panicked or called exit(0)
InitDead == ipc \in {"aborted", "exit0"}

\* Message::Forked { pid }
Forked(p) == [type |-> "Forked", pid |-> p, status |-> NoStatus]

\* Message::Exit { pid, exit_status }
ExitMessageOfInit(p, status) == [type |-> "Exit", pid |-> 1, status |-> status]
ExitMessage(p, status) == [type |-> "Exit", pid |-> p, status |-> status]

\* the ExitStatus init builds from the WaitStatus of the payload
InitExitStatus(ws) ==
    IF ws.kind = "Exited" THEN [kind |-> "Exit", v |-> ws.v]
    ELSE [kind |-> "Signalled", v |-> ws.v % 256]

\* the status of a process that ended in a Rust panic
PanicStatus == ExitStatus("Exited", 101)

\* the statuses the application may end with
PayloadStatuses == {ExitStatus("Exited", 0), ExitStatus("Exited", 1),
                    ExitStatus("Signaled", SIGTERM)}

\* Ok(None) => std::process::exit(0)
OnNonePanics == "aborted"
OnNone == "exit0"

\* `match stream.recv()`: Exec, end of stream, another message, or an error
Init_Recv(msg) ==
    /\ ipc = "recv"
    /\ ipc' = CASE msg = "Exec" -> "pdeathsig"
                [] msg = "None" -> OnNone
                [] OTHER -> "aborted"
    /\ failed' = IF msg \in {"Other", "Err"} THEN "recv" ELSE failed
    /\ UNCHANGED <<desc, done, mounted, limited, euid, keepcaps, nnp, caps, netnsAttached,
                   ifilter, sent, env, iofd, ioOpen, consoleOpen, pid, waited, pay, payk,
                   ptrace, pfd, pfilter, pstatus>>
    /\ UNCHANGED <<clientVars, procVars, wrapVars, pipeVars, launchVars>>

\* util::set_parent_death_signal(SIGKILL) and the NORTHSTAR_CONSOLE entry
\* pushed to env when init holds a console fd
Init_ConsoleEnv ==
    /\ ipc = "pdeathsig"
    /\ ipc' = "recv_fds"
    /\ env' = IF consoleOpen THEN {"NORTHSTAR_CONSOLE"} ELSE {}
    /\ UNCHANGED <<desc, done, failed, mounted, limited, euid, keepcaps, nnp, caps,
                   netnsAttached, ifilter, sent, iofd, ioOpen, consoleOpen, pid, waited,
                   pay, payk, ptrace, pfd, pfilter, pstatus>>
    /\ UNCHANGED <<clientVars, procVars, wrapVars, pipeVars, launchVars>>

\* stream.recv_fds::<RawFd, 3>().expect(..)
Init_RecvFds(ok, fds) ==
    /\ ipc = "recv_fds"
    /\ ipc' = Expect(ok, "fork")
    /\ failed' = Failure(ok, "recv_fds")
    /\ iofd' = IF ok THEN fds ELSE iofd
    /\ ioOpen' = ok
    /\ UNCHANGED <<desc, done, mounted, limited, euid, keepcaps, nnp, caps, netnsAttached,
                   ifilter, sent, env, consoleOpen, pid, waited, pay, payk, ptrace, pfd,
                   pfilter, pstatus>>
    /\ UNCHANGED <<clientVars, procVars, wrapVars, pipeVars, launchVars>>

\* the descriptor table the payload inherits: the received descriptors, and
\* init's own stdio where the received ones do not take its place
InheritedFds(fds) ==
    [f \in Fds |-> CASE f = fds[1] -> "stdin"
                     [] f = fds[2] -> "stdout"
                     [] f = fds[3] -> "stderr"
                     [] f \in 0..2 -> "init"
                     [] OTHER -> "none"]

\* fork(|| ..).expect(..)
Init_Fork(ok, p) ==
    /\ ipc = "fork"
    /\ ipc' = Expect(ok, "close_fds")
    /\ failed' = Failure(ok, "fork")
    /\ pid' = IF ok THEN p ELSE pid
    /\ pay' = IF ok THEN "pdeathsig" ELSE pay
    /\ payk' = IF ok THEN 1 ELSE payk
    /\ pfd' = IF ok THEN InheritedFds(iofd) ELSE pfd
    /\ UNCHANGED <<desc, done, mounted, limited, euid, keepcaps, nnp, caps, netnsAttached,
                   ifilter, sent, env, iofd, ioOpen, consoleOpen, waited, ptrace, pfilter,
                   pstatus>>
    /\ UNCHANGED <<clientVars, procVars, wrapVars, pipeVars, launchVars>>

\* drop(console) and the three unistd::close(..).expect(..)
Init_CloseFds(ok) ==
    /\ ipc = "close_fds"
    /\ ipc' = Expect(ok, "send_forked")
    /\ failed' = Failure(ok, "close_fds")
    /\ consoleOpen' = FALSE
    /\ ioOpen' = ~ok
    /\ UNCHANGED <<desc, done, mounted, limited, euid, keepcaps, nnp, caps, netnsAttached,
                   ifilter, sent, env, iofd, pid, waited, pay, payk, ptrace, pfd, pfilter,
                   pstatus>>
    /\ UNCHANGED <<clientVars, procVars, wrapVars, pipeVars, launchVars>>

\* stream.send(&Message::Forked { pid }).expect(..)
Init_SendForked(ok) ==
    /\ ipc = "send_forked"
    /\ ipc' = Expect(ok, "waitpid")
    /\ failed' = Failure(ok, "send_forked")
    /\ sent' = IF ok THEN Append(sent, Forked(pid)) ELSE sent
    /\ UNCHANGED <<desc, done, mounted, limited, euid, keepcaps, nnp, caps, netnsAttached,
                   ifilter, env, iofd, ioOpen, consoleOpen, pid, waited, pay, payk,
                   ptrace, pfd, pfilter, pstatus>>
    /\ UNCHANGED <<clientVars, procVars, wrapVars, pipeVars, launchVars>>

\* the arms `Continued | Stopped => continue` and `EINTR => continue`
OnContinueBreaks == "send_exit"
OnContinue == "waitpid"

\* the payload has terminated and was not reaped
Waitable == pay \in {"zombie", "aborted"}

\* one waitpid(pid) of the loop: a status of the terminated payload breaks the
\* loop, Continued | Stopped | EINTR continue it, anything else panics
Init_Waitpid(outcome) ==
    /\ ipc = "waitpid"
    /\ waited' = TRUE
    /\ CASE outcome = "status" ->
              /\ Waitable
              /\ pay' = "reaped"
              /\ ipc' = "send_exit"
              /\ UNCHANGED failed
         [] outcome = "continue" ->
              /\ ~Waitable
              /\ ipc' = OnContinue
              /\ UNCHANGED <<pay, failed>>
         [] OTHER ->
              /\ ipc' = "aborted"
              /\ failed' = "waitpid"
              /\ UNCHANGED pay
    /\ UNCHANGED <<desc, done, mounted, limited, euid, keepcaps, nnp, caps, netnsAttached,
                   ifilter, sent, env, iofd, ioOpen, consoleOpen, pid, payk, ptrace, pfd,
                   pfilter, pstatus>>
    /\ UNCHANGED <<clientVars, procVars, wrapVars, pipeVars, launchVars>>

\* stream.send(Message::Exit { pid, exit_status }).expect(..); exit(0)
Init_SendExit(ok) ==
    /\ ipc = "send_exit"
    /\ ipc' = Expect(ok, "exit0")
    /\ failed' = Failure(ok, "send_exit")
    /\ sent' = IF ok THEN Append(sent, ExitMessage(pid, InitExitStatus(pstatus))) ELSE sent
    /\ UNCHANGED <<desc, done, mounted, limited, euid, keepcaps, nnp, caps, netnsAttached,
                   ifilter, env, iofd, ioOpen, consoleOpen, pid, waited, pay, payk,
                   ptrace, pfd, pfilter, pstatus>>
    /\ UNCHANGED <<clientVars, procVars, wrapVars, pipeVars, launchVars>>

(***************************************************************************)
(* The payload child: the closure of fork                                  *)
(***************************************************************************)
\* the kernel delivers SIGKILL to a payload that asked for it when init dies
Orphaned == InitDead /\ ptrace # <<>>

PayloadRuns(pc) == pay = pc /\ ~Orphaned

\* the trace of the payload after a step that succeeded or panicked
Step(ok, name) == Append(ptrace, IF ok THEN name ELSE "panic")

\* util::set_parent_death_signal(SIGKILL)
Payload_Pdeathsig ==
    /\ PayloadRuns("pdeathsig")
    /\ pay' = "dup2"
    /\ ptrace' = Step(TRUE, "pdeathsig")
    /\ UNCHANGED <<desc, ipc, done, failed, mounted, limited, euid, keepcaps, nnp, caps,
                   netnsAttached, ifilter, sent, env, iofd, ioOpen, consoleOpen, pid,
                   waited, payk, pfd, pfilter, pstatus>>
    /\ UNCHANGED <<clientVars, procVars, wrapVars, pipeVars, launchVars>>

\* unistd::dup2(io[k], k).expect(..) for stdin, stdout, stderr
Payload_Dup2(ok) ==
    /\ PayloadRuns("dup2")
    /\ ok => pfd[iofd[payk]] # "none"
    /\ pay' = Expect(ok, IF payk = 3 THEN "close" ELSE "dup2")
    /\ payk' = IF ok THEN (payk % 3) + 1 ELSE payk
    /\ pfd' = IF ok THEN [pfd EXCEPT ![payk - 1] = pfd[iofd[payk]]] ELSE pfd
    /\ pstatus' = IF ok THEN pstatus ELSE PanicStatus
    /\ ptrace' = Step(ok, "dup2")
    /\ UNCHANGED <<desc, ipc, done, failed, mounted, limited, euid, keepcaps, nnp, caps,
                   netnsAttached, ifilter, sent, env, iofd, ioOpen, consoleOpen, pid,
                   waited, pfilter>>
    /\ UNCHANGED <<clientVars, procVars, wrapVars, pipeVars, launchVars>>

\* the statement after the three closes
AfterCloseExecs == "execve"
AfterClose == "seccomp"

\* unistd::close(io[k]).expect(..) for stdin, stdout, stderr
Payload_Close(ok) ==
    /\ PayloadRuns("close")
    /\ ok => pfd[iofd[payk]] # "none"
    /\ pay' = Expect(ok, IF payk = 3 THEN AfterClose ELSE "close")
    /\ payk' = IF ok THEN (payk % 3) + 1 ELSE payk
    /\ pfd' = IF ok THEN [pfd EXCEPT ![iofd[payk]] = "none"] ELSE pfd
    /\ pstatus' = IF ok THEN pstatus ELSE PanicStatus
    /\ ptrace' = Step(ok, "close")
    /\ UNCHANGED <<desc, ipc, done, failed, mounted, limited, euid, keepcaps, nnp, caps,
                   netnsAttached, ifilter, sent, env, iofd, ioOpen, consoleOpen, pid,
                   waited, pfilter>>
    /\ UNCHANGED <<clientVars, procVars, wrapVars, pipeVars, launchVars>>

\* `if let Some(ref filter) = self.seccomp { filter.apply().expect(..) }`
Payload_Seccomp(ok) ==
    /\ PayloadRuns("seccomp")
    /\ IF desc.seccomp
       THEN /\ pay' = Expect(ok, "execve")
            /\ pfilter' = ok
            /\ pstatus' = IF ok THEN pstatus ELSE PanicStatus
            /\ ptrace' = Step(ok, "seccomp")
       ELSE /\ ok
            /\ pay' = "execve"
            /\ UNCHANGED <<pfilter, pstatus, ptrace>>
    /\ UNCHANGED <<desc, ipc, done, failed, mounted, limited, euid, keepcaps, nnp, caps,
                   netnsAttached, ifilter, sent, env, iofd, ioOpen, consoleOpen, pid,
                   waited, payk, pfd>>
    /\ UNCHANGED <<clientVars, procVars, wrapVars, pipeVars, launchVars>>

\* unistd::execve(&path, &args, &env): it returns only on error, into panic!
Payload_Execve(ok) ==
    /\ PayloadRuns("execve")
    /\ pay' = Expect(ok, "running")
    /\ pstatus' = IF ok THEN pstatus ELSE PanicStatus
    /\ ptrace' = Step(ok, "execve")
    /\ UNCHANGED <<desc, ipc, done, failed, mounted, limited, euid, keepcaps, nnp, caps,
                   netnsAttached, ifilter, sent, env, iofd, ioOpen, consoleOpen, pid,
                   waited, payk, pfd, pfilter>>
    /\ UNCHANGED <<clientVars, procVars, wrapVars, pipeVars, launchVars>>

\* the application ends
Payload_Terminate(status) ==
    /\ PayloadRuns("running")
    /\ pay' = "zombie"
    /\ pstatus' = status
    /\ UNCHANGED <<desc, ipc, done, failed, mounted, limited, euid, keepcaps, nnp, caps,
                   netnsAttached, ifilter, sent, env, iofd, ioOpen, consoleOpen, pid,
                   waited, payk, ptrace, pfd, pfilter>>
    /\ UNCHANGED <<clientVars, procVars, wrapVars, pipeVars, launchVars>>

\* SIGKILL as the parent death signal
Payload_Killed ==
    /\ Orphaned
    /\ pay \notin {"none", "zombie", "aborted", "reaped"}
    /\ pay' = "zombie"
    /\ pstatus' = ExitStatus("Signaled", SIGKILL)
    /\ UNCHANGED <<desc, ipc, done, failed, mounted, limited, euid, keepcaps, nnp, caps,
                   netnsAttached, ifilter, sent, env, iofd, ioOpen, consoleOpen, pid,
                   waited, payk, ptrace, pfd, pfilter>>
    /\ UNCHANGED <<clientVars, procVars, wrapVars, pipeVars, launchVars>>

ExecNext ==
    \/ \E msg \in {"Exec", "None", "Other", "Err"} : Init_Recv(msg)
    \/ Init_ConsoleEnv
    \/ \E ok \in BOOLEAN, fds \in IoChoices : Init_RecvFds(ok, fds)
    \/ \E ok \in BOOLEAN, p \in Pids : Init_Fork(ok, p)
    \/ \E ok \in BOOLEAN : Init_CloseFds(ok)
    \/ \E ok \in BOOLEAN : Init_SendForked(ok)
    \/ \E outcome \in {"status", "continue", "error"} : Init_Waitpid(outcome)
    \/ \E ok \in BOOLEAN : Init_SendExit(ok)

PayloadNext ==
    \/ Payload_Pdeathsig
    \/ \E ok \in BOOLEAN : Payload_Dup2(ok)
    \/ \E ok \in BOOLEAN : Payload_Close(ok)
    \/ \E ok \in BOOLEAN : Payload_Seccomp(ok)
    \/ \E ok \in BOOLEAN : Payload_Execve(ok)
    \/ \E status \in PayloadStatuses : Payload_Terminate(status)
    \/ Payload_Killed

InitNext == SetupNext \/ ExecNext \/ PayloadNext


InitInitial == ClientInit /\ ProcIdle /\ InitInit /\ LibIdle

SpecInit == InitInitial /\ [][InitNext]_vars

(***************************************************************************)
(* Convenience wrappers of the client: containers, repositories, start,    *)
(* stop (client.rs:167-243). Each issues one request and narrows the       *)
(* response variant.                                                       *)
(***************************************************************************)
\* longest Vec<Container> and largest repository map of a response
MaxList == 2

\* the sequences over S of length at most n
SeqUpTo(S, n) == UNION {[1..k -> S] : k \in 0..n}

Methods == {"containers", "repositories", "start", "stop"}

\* model::Response: the variant and its payload
Response(variant, v) == [tag |-> variant, v |-> v]

Responses ==
    {Response("Ok", <<>>)}
        \cup {Response("Containers", c) : c \in SeqUpTo({"c1", "c2"}, MaxList)}
        \cup {Response("Repositories", r) : r \in SeqUpTo({"r1"}, MaxList)}
        \cup {Response("Err", <<e>>) : e \in {"e1", "e2"}}

\* the errors Client::request returns: the multiplexer's Io and
\* PendingRequest, and Stopped of a closed channel
RequestErrors == {"Io", "PendingRequest", "Stopped"}

\* Err(error) of the wrapper
Err(error, v) == [tag |-> error, v |-> v]

\* Ok(value) of the wrapper
Ok(v) == [tag |-> "Ok", v |-> v]

\* the arms `Response::X(_) => Err(Error::Protocol)`
ProtocolMismatchAsOk == Ok(<<>>)
ProtocolMismatch == Err("Protocol", <<>>)

\* `self.request(..).await?`: an error of the request is returned as it is
Try(r, narrow) == IF r.tag \in RequestErrors THEN r ELSE narrow

containers(r) ==
    Try(r, CASE r.tag = "Ok" -> ProtocolMismatch
             [] r.tag = "Containers" -> Ok(r.v)
             [] r.tag = "Err" -> Err("Api", r.v)
             [] r.tag = "Repositories" -> ProtocolMismatch)

repositories(r) ==
    Try(r, CASE r.tag = "Ok" -> ProtocolMismatch
             [] r.tag = "Containers" -> ProtocolMismatch
             [] r.tag = "Err" -> Err("Api", r.v)
             [] r.tag = "Repositories" -> Ok(r.v))

start(r) ==
    Try(r, CASE r.tag = "Ok" -> Ok(<<>>)
             [] r.tag = "Containers" -> ProtocolMismatch
             [] r.tag = "Err" -> Err("Api", r.v)
             [] r.tag = "Repositories" -> ProtocolMismatch)

stop(r) ==
    Try(r, CASE r.tag = "Ok" -> Ok(<<>>)
             [] r.tag = "Containers" -> ProtocolMismatch
             [] r.tag = "Err" -> Err("Api", r.v)
             [] r.tag = "Repositories" -> ProtocolMismatch)

\* a wrapper is called and the request returns `reply`
WrapInit ==
    /\ method \in Methods
    /\ reply \in Responses \cup {Err(e, <<>>) : e \in RequestErrors}
    /\ narrowed = NoResult

\* the wrapper returns
Wrapper_Return ==
    /\ method \in Methods
    /\ narrowed = NoResult
    /\ narrowed' = CASE method = "containers" -> containers(reply)
                      [] method = "repositories" -> repositories(reply)
                      [] method = "start" -> start(reply)
                      [] method = "stop" -> stop(reply)
    /\ UNCHANGED <<method, reply>>
    /\ UNCHANGED <<clientVars, procVars, initVars, pipeVars, launchVars>>

InitWrap == WrapInit /\ ClientInit /\ ProcIdle /\ InitIdle /\ PipeIdle /\ LaunchIdle

SpecWrap == InitWrap /\ [][Wrapper_Return]_vars

(***************************************************************************)
(* Pipe (runtime/ipc/pipe.rs): PipeRead and PipeWrite over pipe(2), and    *)
(* the AsyncPipeRead and AsyncPipeWrite wrappers. One writer and one       *)
(* reader use the pipe as two threads, as two tasks on the async wrappers, *)
(* or as two processes after a fork. The k-th byte written has the value k.*)
(***************************************************************************)
\* bytes written in a run
MaxBytes == 4
\* length of the buffer the reader passes to read and read_exact
BufLen == 2
\* bytes the kernel's pipe buffer holds; a write of up to PipeCap bytes is
\* atomic, as a write of up to PIPE_BUF bytes is
PipeCap == 2

Min(a, b) == IF a <= b THEN a ELSE b

\* pipe(), and in fork mode the fork that duplicates both descriptors
PipeInit ==
    /\ pipeMode \in {"thread", "async", "fork"}
    /\ pipeBuf = <<>>
    /\ readEnds = IF pipeMode = "fork" THEN {"reader", "writer"} ELSE {"reader"}
    /\ writeEnds = IF pipeMode = "fork" THEN {"reader", "writer"} ELSE {"writer"}
    /\ sentBytes = <<>>
    /\ seen = <<>>
    /\ rbuf = IF pipeMode = "async" THEN [i \in 1..BufLen |-> 0] ELSE <<>>
    /\ filled = 0
    /\ eof = FALSE
    /\ werr = "none"
    /\ rerr = "none"

\* after the fork a process uses its end once it closed the other one
UsesOnly(p, otherEnds) == pipeMode = "fork" => p \notin otherEnds

\* write(2) on a pipe that no descriptor reads any more fails with EPIPE
WriteErrnoNever(ends) == "none"
WriteErrno(ends) == IF ends = {} THEN "EPIPE" ELSE "none"

\* the bytes of the next write of n bytes
NextBytes(n) == [k \in 1..n |-> Len(sentBytes) + k]

\* PipeWrite::write and AsyncPipeWrite::poll_write: unistd::write of n bytes.
\* Without room for them the write blocks, or is Pending on the async
\* wrapper where write(2) returns EAGAIN.
Pipe_Write(n) ==
    /\ "writer" \in writeEnds
    /\ UsesOnly("writer", readEnds)
    /\ werr = "none"
    /\ IF WriteErrno(readEnds) # "none"
       THEN /\ werr' = WriteErrno(readEnds)
            /\ UNCHANGED <<pipeBuf, sentBytes>>
       ELSE /\ Len(sentBytes) + n <= MaxBytes
            /\ Len(pipeBuf) + n <= PipeCap
            /\ pipeBuf' = pipeBuf \o NextBytes(n)
            /\ sentBytes' = sentBytes \o NextBytes(n)
            /\ werr' = werr
    /\ UNCHANGED <<pipeMode, readEnds, writeEnds, seen, rbuf, filled, eof, rerr>>
    /\ UNCHANGED <<clientVars, procVars, initVars, wrapVars, launchVars>>

\* read(2) with a buffer of `count` bytes: the bytes it returns
ReadSkips(buf, count) == SubSeq(buf, 2, Min(count, Len(buf)))
Read(buf, count) == SubSeq(buf, 1, Min(count, Len(buf)))

\* and the bytes it leaves in the pipe
Rest(buf, count) == SubSeq(buf, Min(count, Len(buf)) + 1, Len(buf))

\* PipeRead::read: unistd::read into a buffer of `count` bytes. It returns 0
\* on an empty pipe that no descriptor writes any more, and blocks on an
\* empty pipe otherwise.
Pipe_Read(count) ==
    /\ pipeMode \in {"thread", "fork"}
    /\ "reader" \in readEnds
    /\ UsesOnly("reader", writeEnds)
    /\ ~eof
    /\ IF pipeBuf # <<>>
       THEN /\ seen' = seen \o Read(pipeBuf, count)
            /\ pipeBuf' = Rest(pipeBuf, count)
            /\ eof' = eof
       ELSE /\ writeEnds = {}
            /\ eof' = TRUE
            /\ UNCHANGED <<seen, pipeBuf>>
    /\ UNCHANGED <<pipeMode, readEnds, writeEnds, sentBytes, rbuf, filled, werr, rerr>>
    /\ UNCHANGED <<clientVars, procVars, initVars, wrapVars, launchVars>>

\* unistd::read(fd, buf.initialized_mut()): the bytes go to the start of
\* the initialized part of the ReadBuf, which begins with its filled part
ReadInto(buf, data) == [i \in 1..BufLen |-> IF i <= Len(data) THEN data[i] ELSE buf[i]]

\* AsyncPipeRead::poll_read, polled by read_exact with the ReadBuf it keeps
\* over a buffer of BufLen bytes until the buffer is filled.
\* buf.advance(n) panics when filled + n exceeds the buffer; a full buffer
\* completes the read_exact, and the next one starts with filled = 0.
\* read(2) returning 0 ends the read_exact with UnexpectedEof; EAGAIN on an
\* empty pipe gives Poll::Pending.
Async_PollRead ==
    /\ pipeMode = "async"
    /\ "reader" \in readEnds
    /\ ~eof
    /\ rerr = "none"
    /\ IF pipeBuf # <<>>
       THEN LET data == Read(pipeBuf, BufLen)
                n == Len(data)
            IN  /\ pipeBuf' = Rest(pipeBuf, BufLen)
                /\ rbuf' = ReadInto(rbuf, data)
                /\ rerr' = IF filled + n > BufLen THEN "panic" ELSE rerr
                /\ filled' = CASE filled + n > BufLen -> filled
                                [] filled + n = BufLen -> 0
                                [] OTHER -> filled + n
                /\ seen' = IF filled + n = BufLen THEN seen \o ReadInto(rbuf, data) ELSE seen
                /\ eof' = eof
       ELSE /\ writeEnds = {}
            /\ eof' = TRUE
            /\ UNCHANGED <<pipeBuf, rbuf, rerr, filled, seen>>
    /\ UNCHANGED <<pipeMode, readEnds, writeEnds, sentBytes, werr>>
    /\ UNCHANGED <<clientVars, procVars, initVars, wrapVars, launchVars>>

\* Inner::drop of a PipeRead: unistd::close of p's read descriptor
Pipe_DropRead(p) ==
    /\ p \in readEnds
    /\ readEnds' = readEnds \ {p}
    /\ UNCHANGED <<pipeMode, pipeBuf, writeEnds, sentBytes, seen, rbuf, filled, eof, werr,
                   rerr>>
    /\ UNCHANGED <<clientVars, procVars, initVars, wrapVars, launchVars>>

\* Inner::drop of a PipeWrite: unistd::close of p's write descriptor
Pipe_DropWrite(p) ==
    /\ p \in writeEnds
    /\ writeEnds' = writeEnds \ {p}
    /\ UNCHANGED <<pipeMode, pipeBuf, readEnds, sentBytes, seen, rbuf, filled, eof, werr,
                   rerr>>
    /\ UNCHANGED <<clientVars, procVars, initVars, wrapVars, launchVars>>

PipeNext ==
    \/ \E n \in 1..PipeCap : Pipe_Write(n)
    \/ \E count \in 1..BufLen : Pipe_Read(count)
    \/ Async_PollRead
    \/ \E p \in {"reader", "writer"} : Pipe_DropRead(p)
    \/ \E p \in {"reader", "writer"} : Pipe_DropWrite(p)

InitPipe == PipeInit /\ ClientInit /\ ProcIdle /\ InitIdle /\ WrapIdle /\ LaunchIdle

SpecPipe == InitPipe /\ [][PipeNext]_vars

\* a writer that holds the write end keeps calling write
PipeFairness == WF_vars(\E n \in 1..PipeCap : Pipe_Write(n))

SpecPipeLive == InitPipe /\ [][PipeNext]_vars /\ PipeFairness

(***************************************************************************)
(* Argv and env of the container's init (process/mod.rs:332-402), built    *)
(* from the manifest and the optional args and env passed to create.       *)
(***************************************************************************)
\* longest args list of the manifest and of a call
MaxArgs == 2

ArgValues == {"a", "b"}
EnvKeys == {"K1", "K2"}
EnvValues == {"m", "c"}

\* the names of the two entries env always starts with
ENV_NAME == "NAME"
ENV_VERSION == "VERSION"

\* HashMap<NonNullString, NonNullString>
EnvMaps == UNION {[D -> EnvValues] : D \in SUBSET EnvKeys}

\* Option<T>
Options(T) == {None} \cup {Some(x) : x \in T}

LaunchInit ==
    /\ manifest \in [init : {"/bin/app"}, name : {"hello"}, version : {"0.0.1"},
                      args : Options(SeqUpTo(ArgValues, MaxArgs)), env : Options(EnvMaps)]
    /\ callArgs \in Options(SeqUpTo(ArgValues, MaxArgs))
    /\ callEnv \in Options(EnvMaps)
    /\ argv = <<>>
    /\ envp = <<>>

\* the arm `(Some(_), Some(a)) => a.as_slice()`
BothGivenManifest(m, a) == m
BothGiven(m, a) == a

init_argv(m, args) ==
    LET a == CASE ~m.args.some /\ ~args.some -> <<>>
               [] ~m.args.some /\ args.some -> args.v
               [] m.args.some /\ ~args.some -> m.args.v
               [] m.args.some /\ args.some -> BothGiven(m.args.v, args.v)
    IN  <<m.init>> \o a

\* format!("{}={}", k, v)
Entry(k, v) == <<k, "=", v>>

\* the orders in which a HashMap may iterate over the keys S
Orders(S) == {o \in [1..Cardinality(S) -> S] : \A i, j \in DOMAIN o : o[i] = o[j] => i = j}

\* the filter `env.map(|env| !env.contains_key(k)).unwrap_or(true)`
KeepAll(e, k) == TRUE
Keep(e, k) == IF e.some THEN k \notin DOMAIN e.v ELSE TRUE

\* the entries of map `m` for the keys `keys`, in that order
Entries(m, keys) == [i \in 1..Len(keys) |-> Entry(keys[i], m[keys[i]])]

\* fn env; mo and co are the iteration orders of the two maps
Env(m, e, mo, co) ==
    <<Entry(ENV_NAME, m.name), Entry(ENV_VERSION, m.version)>>
        \o (IF m.env.some
            THEN Entries(m.env.v, SelectSeq(mo, LAMBDA k : Keep(e, k)))
            ELSE <<>>)
        \o (IF e.some THEN Entries(e.v, co) ELSE <<>>)

Launch_Argv ==
    /\ manifest.init # "none"
    /\ argv = <<>>
    /\ argv' = init_argv(manifest, callArgs)
    /\ UNCHANGED <<manifest, callArgs, callEnv, envp>>
    /\ UNCHANGED <<clientVars, procVars, initVars, wrapVars, pipeVars>>

Launch_Env ==
    /\ manifest.init # "none"
    /\ envp = <<>>
    /\ \E mo \in Orders(DOMAIN manifest.env.v), co \in Orders(DOMAIN callEnv.v) :
           envp' = Env(manifest, callEnv, mo, co)
    /\ UNCHANGED <<manifest, callArgs, callEnv, argv>>
    /\ UNCHANGED <<clientVars, procVars, initVars, wrapVars, pipeVars>>

LaunchNext == Launch_Argv \/ Launch_Env

InitLaunch == LaunchInit /\ ClientInit /\ ProcIdle /\ InitIdle /\ WrapIdle /\ PipeIdle

SpecLaunch == InitLaunch /\ [][LaunchNext]_vars


(***************************************************************************)
(* Claims about the control-plane client                                   *)
(***************************************************************************)
\* requests written to the connection whose response was not received yet
Outstanding == Len(wire) - Answered

\* C1: single flight. In every state at most one request has been written to
\* the connection without its response having been received, and while the
\* task runs that request is exactly the one whose waiter the pending slot holds
\* (so a frame is only ever written with the slot empty).
C1_SingleFlight ==
    /\ Outstanding \in {0, 1}
    /\ response_tx # 0 => response_tx = LastSent
    /\ mux \notin Terminated => (Outstanding = 1 <=> response_tx # 0)

\* a second request went out after the first one was answered, and is outstanding
C1_Witness ==
    /\ Len(wire) = 2
    /\ Outstanding = 1
    /\ response_tx = 2

\* C2 as stated: every inbound Response that answers a request is delivered to
\* the waiter of the request sent immediately before it, never to no waiter.
C2_Original ==
    \A k \in DOMAIN route :
        route[k].outstanding => waiter[route[k].sent] = Waiter("Ok", k)

\* C2 amended: a Response that arrives while a request is outstanding reaches the
\* waiter of that request (the one written immediately before it) unless that
\* waiter was cancelled, in which case it reaches no waiter; a Response that
\* arrives with no request outstanding reaches no waiter; no waiter ever holds
\* a Response other than the one that answered its own request.
C2_Routing ==
    /\ \A k \in DOMAIN route :
          route[k].outstanding =>
              \/ waiter[route[k].sent] = Waiter("Ok", k)
              \/ waiter[route[k].sent] = Cancelled
    /\ \A i \in ReqIds :
          waiter[i].st = "Ok" =>
              /\ waiter[i].resp \in DOMAIN route
              /\ route[waiter[i].resp].outstanding
              /\ route[waiter[i].resp].sent = i

\* the first request was cancelled and its response dropped; the second
\* request then received the second response
C2_Witness ==
    /\ Len(route) = 2
    /\ waiter[1] = Cancelled
    /\ route[1].outstanding /\ route[1].sent = 1
    /\ waiter[2] = Waiter("Ok", 2)

\* C3 as stated: a request submitted while another request is in flight is never
\* written to the connection and fails with PendingRequest.
C3_Original ==
    \A i \in ReqIds :
        submitPending[i] =>
            /\ i \notin SeqToSet(wire)
            /\ waiter[i].st \in {"waiting", "cancelled", "PendingRequest", "Stopped"}

\* the task takes a request from the request channel
TakesRequest ==
    /\ mux = "running" /\ mux' = "running"
    /\ request_rx # <<>>
    /\ request_rx' = Tail(request_rx)

\* C3 amended: a request that the task takes from the request channel while the
\* pending slot is occupied fails with PendingRequest (when its caller still
\* waits), is not written to the connection, and leaves the slot and the
\* in-flight waiter unchanged. (A request submitted while another is in flight
\* but taken after that one's response was received is sent like any other.)
C3_Rejected ==
    /\ [](\A i \in ReqIds : waiter[i].st = "PendingRequest" => i \notin SeqToSet(wire))
    /\ [][(TakesRequest /\ response_tx # 0) =>
            LET i == Head(request_rx) IN
            /\ wire' = wire
            /\ response_tx' = response_tx
            /\ waiter'[response_tx] = waiter[response_tx]
            /\ waiter'[i] = IF waiter[i] = Waiting
                            THEN Waiter("PendingRequest", 0) ELSE waiter[i]]_vars

\* the second request was rejected while the first is still in flight
C3_Witness ==
    /\ waiter[2].st = "PendingRequest"
    /\ response_tx = 1
    /\ waiter[1] = Waiting
    /\ wire = <<1>>

(***************************************************************************)
(* Claims about the launcher and the Process                               *)
(***************************************************************************)
\* the child has left checkpoint_init.wait() and run init
ChildRanInit == child \in {"started", "zombie", "reaped"}

\* C5: launch gating. The cloned child performs no init step until the runtime
\* has called spawn on the Process, also when spawn is never called or the
\* Process and its checkpoint half are dropped.
C5_Gating == ChildRanInit => spawn # "none"

\* C10: the wait task sends at most one Exit event, the event carries the first
\* terminal status exit_status(pid) returned for the pid, and the status
\* Process::wait returns is the status of that event.
C10_ExitOnce ==
    /\ Len(events) <= 1
    /\ Len(observed) <= 1
    /\ events # <<>> => (observed # <<>> /\ events[1] = observed[1])
    /\ waitCall = "returned" =>
          /\ observed # <<>>
          /\ waitResult = observed[1]
          /\ events # <<>> => waitResult = events[1]

\* init exited with the re-encoded SIGTERM; the event was sent and wait returned
C10_Witness ==
    /\ waitCall = "returned"
    /\ events = <<ExitStatus("Signaled", SIGTERM)>>
    /\ childStatus = ExitStatus("Exited", SIGNAL_OFFSET + SIGTERM)
    /\ child = "reaped"

(***************************************************************************)
(* Claims about init                                                       *)
(***************************************************************************)
\* s is an initial part of t
IsPrefix(s, t) == Len(s) <= Len(t) /\ \A k \in 1..Len(s) : s[k] = t[k]

\* the failures of the setup sequence, and those of the message loop
SetupFailures == {SetupOrder[k] : k \in 1..Len(SetupOrder)}
LoopFailures == {"recv", "recv_fds", "fork", "close_fds", "send_forked", "waitpid",
                 "send_exit"}

\* init has left its setup sequence: it is at, or past, the first recv
AtOrAfterRecv ==
    \/ ipc \in {"recv", "pdeathsig", "recv_fds", "fork", "close_fds", "send_forked",
                "waitpid", "send_exit", "exit0"}
    \/ failed \in LoopFailures

\* what init sent is an initial part of Forked{pid}, Exit{pid, status}
ForkedThenExit ==
    /\ Len(sent) <= 2
    /\ Len(sent) >= 1 => sent[1] = Forked(pid)
    /\ Len(sent) = 2 => (sent[2].type = "Exit" /\ sent[2].pid = sent[1].pid)

SetupCompleted == done # <<>> /\ done[Len(done)] = "caps"

\* C6: once init has completed its setup sequence, every capability outside
\* the keep-set is absent from the effective, permitted, inheritable, ambient
\* and bounding sets, and the effective set is exactly the keep-set.
C6_Pruned ==
    SetupCompleted =>
        /\ \A c \in Caps \ desc.capabilities :
              c \notin (caps.e \cup caps.p \cup caps.i \cup caps.a \cup caps.b)
        /\ caps.e = desc.capabilities

\* a root runtime, a container user, and one capability kept out of a full
\* bounding set
C6_Witness ==
    /\ SetupCompleted
    /\ euid = UserUid
    /\ desc.capabilities = {"CAP_NET_BIND_SERVICE"}
    /\ caps = [e |-> {"CAP_NET_BIND_SERVICE"}, p |-> {"CAP_NET_BIND_SERVICE"},
               i |-> {"CAP_NET_BIND_SERVICE"}, a |-> {"CAP_NET_BIND_SERVICE"},
               b |-> {"CAP_NET_BIND_SERVICE"}]

\* C7: if a step of the setup sequence fails, init aborts at that step: the
\* steps before it are done and no later one is, init never enters the message
\* loop, sends nothing, forks no payload, and stays aborted.
C7_NoHalfBuilt ==
    /\ [](failed \in SetupFailures =>
             /\ ipc = "aborted"
             /\ Len(done) < Len(SetupOrder)
             /\ IsPrefix(done, SetupOrder)
             /\ failed = SetupOrder[Len(done) + 1]
             /\ ~AtOrAfterRecv
             /\ sent = <<>>
             /\ pay = "none"
             /\ ptrace = <<>>)
    /\ [][ipc = "aborted" => (ipc' = "aborted" /\ failed' = failed /\ sent' = sent
                              /\ done' = done)]_vars

\* the last capability change failed after no_new_privs was set
C7_Witness ==
    /\ failed = "caps"
    /\ ipc = "aborted"
    /\ nnp
    /\ Len(done) = Len(SetupOrder) - 1
    /\ caps.e = desc.capabilities
    /\ caps.a # desc.capabilities

\* C8: the setup steps occur once each and in the order subreaper, rename,
\* setsid, netns, unshare, mounts, chroot, chdir, uid/gid, groups, rlimits,
\* no_new_privs, capabilities; the first recv happens after all of them, and
\* no_new_privs is set from then on.
C8_SetupOrder ==
    /\ [](/\ IsPrefix(done, SetupOrder)
          /\ AtOrAfterRecv =>
                /\ done = SetupOrder
                /\ mounted = desc.mounts
                /\ limited = desc.rlimits
                /\ nnp)
    /\ [][nnp => nnp']_vars

\* init waits for the payload after a full setup with a mount and an rlimit
C8_Witness ==
    /\ ipc = "waitpid"
    /\ done = SetupOrder
    /\ mounted = 1
    /\ limited = 1
    /\ netnsAttached
    /\ nnp

\* the steps of the payload child up to and including execve
PayloadOrder ==
    <<"pdeathsig", "dup2", "dup2", "dup2", "close", "close", "close">>
        \o (IF desc.seccomp THEN <<"seccomp">> ELSE <<>>) \o <<"execve">>

\* the payload child panicked
Panicked == ptrace # <<>> /\ ptrace[Len(ptrace)] = "panic"

\* the steps the payload child completed
Completed == IF Panicked THEN SubSeq(ptrace, 1, Len(ptrace) - 1) ELSE ptrace

\* the payload child called execve and it did not return
Execed == ptrace # <<>> /\ ptrace[Len(ptrace)] = "execve"

\* C9: the seccomp filter is installed only in the payload child, after the
\* three dup2 onto 0/1/2 and the three closes, as the last step before execve;
\* init never runs under it; a child step that fails before exec ends the child
\* without exec.
C9_Seccomp ==
    /\ ~ifilter
    /\ IsPrefix(Completed, PayloadOrder)
    /\ pfilter => (desc.seccomp /\ Completed # <<>>
                   /\ \E k \in 1..Len(Completed) :
                         Completed[k] = "seccomp" /\ k = 8 /\ k >= Len(Completed) - 1)
    /\ Execed => (Completed = PayloadOrder /\ (desc.seccomp => pfilter))
    /\ Panicked => (~Execed /\ pay \in {"aborted", "reaped"}
                    /\ \A k \in 1..Len(ptrace) : ptrace[k] # "execve")

\* the application runs under the filter with the received stdio
C9_Witness ==
    /\ pay = "running"
    /\ pfilter
    /\ ptrace = PayloadOrder
    /\ pfd = [f \in Fds |-> CASE f = 0 -> "stdin" [] f = 1 -> "stdout"
                              [] f = 2 -> "stderr" [] OTHER -> "none"]
    /\ iofd = <<3, 4, 5>>

\* init terminated with a status that exit_status(pid) maps to an ExitStatus
TerminatedWith(states) ==
    child \in states /\ ToExitStatus(childStatus).kind # "Panic"

\* C11: whenever init terminates, at any point after the clone and with a
\* status the wait task can map, the wait task eventually completes with the
\* Exit event sent, and a pending Process::wait eventually returns.
C11_Liveness ==
    /\ TerminatedWith({"zombie"}) ~> (wt = "done")
    /\ (TerminatedWith({"zombie", "reaped"}) /\ waitCall = "awaiting") ~> (waitCall = "returned")

\* C12: for every exit code c of init the wait task yields Exit(c) when c is in
\* 0..127 and Signaled(c - 128) when c is 128 or more; SIGTERM re-encoded as
\* 143 surfaces as Signaled(15).
C12_Encoding ==
    (child = "reaped" /\ childStatus.kind = "Exited") =>
        observed = <<IF childStatus.v < SIGNAL_OFFSET
                     THEN ExitStatus("Exit", childStatus.v)
                     ELSE ExitStatus("Signaled", childStatus.v - SIGNAL_OFFSET)>>

\* the spawn deadline passed: the runtime sent the signal of the deadline branch
DeadlinePassed == \E k \in DOMAIN killed : killed[k].by = "spawn"

\* C13: spawn releases init's checkpoint and then waits for the
\* acknowledgement; it ends by the deadline only while the acknowledgement has
\* not arrived, and then sends SIGKILL to -pid; when the acknowledgement is
\* there it ends without sending a signal.
C13_Deadline ==
    /\ [](/\ spawn = "awaiting" => (pipeByte.b /\ ~checkpoint)
          /\ \A k \in DOMAIN killed : killed[k].by = "spawn" => killed[k].sig = SIGKILL)
    /\ [][(spawn = "awaiting" /\ spawn' # "awaiting") =>
              IF Readable("a")
              THEN killed' = killed
              ELSE killed' = Append(killed, [sig |-> SIGKILL, by |-> "spawn",
                                             delivered |-> GroupExists])]_vars

\* init ran but did not acknowledge; the deadline branch killed its group
C13_Witness ==
    /\ spawn = "done"
    /\ killed = <<[sig |-> SIGKILL, by |-> "spawn", delivered |-> TRUE]>>
    /\ ~childAcked
    /\ childStatus = ExitStatus("Signaled", SIGKILL)

\* C14: when the spawn deadline is exceeded, spawn does not return success.
C14_TimeoutError == DeadlinePassed => spawn # "done"

\* a step of Process::kill: it stores a result or records the signal it sent
KillStep ==
    \/ killResult' # killResult
    \/ (killed' # killed /\ killed'[Len(killed')].by = "kill")

\* C15: kill(signal) returns Ok when kill(-pid, signal) succeeds or fails with
\* ESRCH and an Os error for every other errno, and it changes nothing of the
\* Process: the checkpoint, the exit future, the log tails and the handle.
C15_Kill ==
    /\ [](killResult.result # "none" =>
             killResult.result = IF killResult.errno \in {"none", "ESRCH"} THEN "Ok" ELSE "Os")
    /\ [][KillStep => UNCHANGED <<proc, checkpoint, exit_status, io, spawn, waitCall,
                                  wt, observed, events>>]_vars

\* kill after init was reaped: no process group is left, the result is Ok
C15_Witness ==
    /\ child = "reaped"
    /\ killResult = [errno |-> "ESRCH", result |-> "Ok"]
    /\ killed # <<>>
    /\ ~killed[Len(killed)].delivered

\* the steps that notify a half: Process::spawn and init's acknowledgement
RuntimeNotifies == spawn # "awaiting" /\ spawn' = "awaiting"
InitNotifies == ~childAcked /\ childAcked'

\* the rendezvous of the child is fair: the cloned child runs, its blocking
\* read returns when it can, and the runtime polls the awaited half
RendezvousFairness ==
    /\ WF_vars(Child_DropRuntimeHalf)
    /\ WF_vars(Child_Start)
    /\ WF_vars(Child_Notify)
    /\ WF_vars(Spawn_Ack)

SpecRendezvous == InitProc /\ [][ProcNext]_vars /\ RendezvousFairness

\* C16: notify on one half makes the wait of the paired half return, and that
\* wait returns once; the notifying side then awaits the other pipe, the one
\* its peer notifies; a notify never makes the wait of its own side return;
\* with both sides taking their steps the rendezvous completes.
C16_Rendezvous ==
    /\ [][RuntimeNotifies =>
              /\ Readable(InitHalf.wait)'
              /\ Readable(RuntimeHalf.wait)' = Readable(RuntimeHalf.wait)]_vars
    /\ [][InitNotifies =>
              /\ Readable(RuntimeHalf.wait)'
              /\ Readable(InitHalf.wait)' = Readable(InitHalf.wait)]_vars
    /\ [][(child = "waiting" /\ child' # "waiting") => Readable(InitHalf.wait)]_vars
    /\ [][child # "waiting" /\ child # "cloned" => child' # "waiting"]_vars
    /\ [][(spawn = "awaiting" /\ spawn' = "done" /\ killed' = killed) =>
              Readable(RuntimeHalf.wait)]_vars
    /\ (spawn = "awaiting") ~> (ChildRanInit /\ spawn \in {"done", "panicked"})

\* both phases were crossed by notify: init ran and acknowledged, spawn
\* returned without the deadline
C16_Witness ==
    /\ spawn = "done"
    /\ childAcked
    /\ child = "started"
    /\ killed = <<>>
    /\ pipeByte = [a |-> TRUE, b |-> TRUE]
    /\ pipeW = [a |-> {}, b |-> {}]

\* C17: the checkpoint of a Process is released at most once: the first spawn
\* takes the runtime's half, the half is never restored, and a second spawn
\* panics without releasing or signalling init again.
C17_OneShot ==
    /\ [][RuntimeNotifies => (checkpoint /\ ~checkpoint' /\ ~pipeByte[RuntimeHalf.notify])]_vars
    /\ [][(proc = "created" /\ ~checkpoint) => ~checkpoint']_vars
    /\ [][(spawn # "panicked" /\ spawn' = "panicked") =>
              /\ ~checkpoint
              /\ spawn = "done"
              /\ UNCHANGED <<checkpoint, pipeByte, pipeW, killed, child, childStatus>>]_vars

\* spawn was called a second time on a running init
C17_Witness ==
    /\ spawn = "panicked"
    /\ pipeByte[RuntimeHalf.notify]
    /\ child = "started"
    /\ childAcked
    /\ killed = <<>>

\* C18: while the connection stays open and the multiplexer runs, every request
\* the multiplexer accepted and wrote resolves with the runtime's response,
\* unless its caller cancels it, whatever number of notifications precedes the
\* response and whether or not notifications are read meanwhile.
C18_Liveness ==
    [](mux \notin Terminated) =>
        \A i \in ReqIds :
            (response_tx = i /\ waiter[i] = Waiting) ~> (waiter[i].st \in {"Ok", "cancelled"})

\* a Response frame arrives while the slot holds the sender of a request whose
\* caller cancelled
ResponseToCancelled ==
    /\ Len(route') = Len(route) + 1
    /\ response_tx # 0
    /\ waiter[response_tx] = Cancelled

\* C19: the response to a cancelled request is dropped when it arrives: no
\* waiter changes, the multiplexer keeps running and the slot is free; a
\* request taken with the slot free is not rejected as pending; a response is
\* only ever held by the waiter that was in the slot when it arrived.
C19_Cancellation ==
    /\ [][ResponseToCancelled =>
              (waiter' = waiter /\ mux' = "running" /\ response_tx' = 0)]_vars
    /\ [][(TakesRequest /\ response_tx = 0) =>
              waiter'[Head(request_rx)].st # "PendingRequest"]_vars
    /\ [](\A i \in ReqIds : waiter[i].st = "Ok" =>
              (waiter[i].resp \in DOMAIN route /\ route[waiter[i].resp].pending = i))

\* the first request was cancelled and its response dropped; the second was
\* accepted afterwards and got the second response
C19_Witness ==
    /\ mux = "running"
    /\ response_tx = 0
    /\ wire = <<1, 2>>
    /\ waiter = <<Cancelled, Waiter("Ok", 2)>>
    /\ Len(route) = 2
    /\ route[1].pending = 1

\* C20: once the multiplexer task has terminated, a request submitted later
\* returns Stopped, and no request is left waiting: the ones in flight or
\* queued when the task terminated resolved with Stopped.
C20_Stopped ==
    /\ [](mux \in Terminated => \A i \in ReqIds : waiter[i] # Waiting)
    /\ [][(mux \in Terminated /\ nSubmitted' = nSubmitted + 1) =>
              waiter'[nSubmitted'] = Waiter("Stopped", 0)]_vars
    /\ [][(mux \notin Terminated /\ mux' \in Terminated) =>
              \A i \in ReqIds : waiter[i] = Waiting => waiter'[i] = Waiter("Stopped", 0)]_vars

\* the task ended on an i/o error with request 1 written and unanswered; both
\* requests ended with Stopped
C20_Witness ==
    /\ mux = "io"
    /\ wire = <<1>>
    /\ route = <<>>
    /\ nSubmitted = 2
    /\ waiter = <<Waiter("Stopped", 0), Waiter("Stopped", 0)>>

\* C21: every transport error on the connection, on receiving a frame or on
\* sending a request, terminates the multiplexer task: a request that failed
\* with the Io error of its send exists only once the task has terminated.
C21_Transport ==
    /\ mux = "io" => mux \in Terminated
    /\ (\E i \in ReqIds : waiter[i].st = "Io") => mux \in Terminated

\* C22: a Response received while no request is pending, and any inbound
\* Request, terminate the multiplexer with a protocol error, and no waiter
\* receives a value from such a frame.
C22_Protocol ==
    /\ []((\E k \in DOMAIN route : route[k].pending = 0) =>
              (mux = "protocol" /\ route[Len(route)].pending = 0))
    /\ [][(mux # "protocol" /\ mux' = "protocol") =>
              \A i \in ReqIds : waiter'[i] = IF waiter[i] = Waiting
                                             THEN Waiter("Stopped", 0) ELSE waiter[i]]_vars

\* a Response arrived with nothing pending while request 1 was still queued
C22_Witness ==
    /\ mux = "protocol"
    /\ Len(route) = 1
    /\ route[1].pending = 0
    /\ wire = <<>>
    /\ waiter[1] = Waiter("Stopped", 0)

\* the notifications received so far, in the order of arrival
Arrived == [k \in 1..nNotif |-> k]

\* the notification the task holds in its pending send
Held == IF heldNotif = 0 THEN <<>> ELSE <<heldNotif>>

\* C23: while the Client exists no notification is dropped: those yielded by
\* the stream, those buffered (at most 10) and the one in the pending send are
\* the notifications received, in the order of arrival; a notification
\* received after the Client is gone is dropped and the task keeps running.
C23_Notifications ==
    /\ [](Len(notification_rx) <= NotifCap)
    /\ [](clientAlive => taken \o notification_rx \o Held = Arrived)
    /\ [][(nNotif' = nNotif + 1 /\ ~clientAlive) =>
              (mux' = mux /\ notification_rx' = notification_rx /\ heldNotif' = 0)]_vars

\* the eleventh notification waited in the send until the first was read
C23_Witness ==
    /\ clientAlive
    /\ taken = <<1>>
    /\ notification_rx = [k \in 1..NotifCap |-> k + 1]
    /\ heldNotif = 0
    /\ mux = "running"

\* the response variant for which a wrapper returns Ok
Accepted ==
    CASE method = "containers" -> "Containers"
      [] method = "repositories" -> "Repositories"
      [] method \in {"start", "stop"} -> "Ok"

\* C24: a wrapper returns Ok only for its own response variant (start and stop
\* for Response::Ok, containers for Containers, repositories for
\* Repositories) and then with that response's payload, Api(e) for
\* Response::Err(e), Protocol for every other variant, and the error of the
\* underlying request unchanged
C24_Wrappers ==
    narrowed # NoResult =>
        /\ narrowed.tag = "Ok" <=> reply.tag = Accepted
        /\ narrowed.tag = "Ok" => narrowed.v = reply.v
        /\ reply.tag = "Err" <=> narrowed.tag = "Api"
        /\ reply.tag = "Err" => narrowed.v = reply.v
        /\ (reply.tag \in {"Ok", "Containers", "Repositories"} \ {Accepted})
               <=> narrowed.tag = "Protocol"
        /\ reply.tag \in RequestErrors => narrowed = reply

\* `containers` got a Response::Repositories and returned Protocol
C24_Witness ==
    /\ method = "containers"
    /\ reply = Response("Repositories", <<"r1">>)
    /\ narrowed.tag = "Protocol"

\* reader and writer use PipeRead and PipeWrite themselves
Blocking == pipeMode \in {"thread", "fork"}

\* C25: the reads on r return the written bytes in order, byte for byte, and
\* return EOF only when every written byte was returned and w is closed; a
\* read on an empty pipe whose write end is closed returns EOF, it does not
\* block
C25_Content ==
    Blocking =>
        /\ IsPrefix(seen, sentBytes)
        /\ eof => (seen = sentBytes /\ writeEnds = {})
        /\ (pipeBuf = <<>> /\ writeEnds = {} /\ "reader" \in readEnds /\ ~eof) =>
               ENABLED (\E count \in 1..BufLen : Pipe_Read(count) /\ eof')

\* MaxBytes bytes were written, w was dropped and the reader met EOF
C25_Witness ==
    /\ pipeMode = "thread"
    /\ Len(sentBytes) = MaxBytes
    /\ seen = sentBytes
    /\ eof

\* C26: with reader and writer running concurrently as threads, as async
\* tasks or as two processes, the reader observes the written bytes in write
\* order, none lost, duplicated or reordered
C26_Concurrency ==
    /\ IsPrefix(seen, sentBytes)
    /\ rerr = "none"
    /\ "reader" \in readEnds => seen \o SubSeq(rbuf, 1, filled) \o pipeBuf = sentBytes

\* C27: once no descriptor of the read end is open, no write succeeds, and
\* a writer that keeps writing gets an error
C27_DroppedReader ==
    /\ [][readEnds = {} => sentBytes' = sentBytes]_vars
    /\ (readEnds = {} /\ "writer" \in writeEnds) ~>
           (werr = "EPIPE" \/ "writer" \notin writeEnds)

\* the reader was dropped with a byte still in the pipe and the next write
\* failed
C27_Witness ==
    /\ readEnds = {}
    /\ pipeBuf # <<>>
    /\ "writer" \in writeEnds
    /\ werr = "EPIPE"

\* C28: argv[0] is the init path; the rest is exactly the per-call args when
\* they are given and exactly the manifest args, possibly none, otherwise, in
\* their order
C28_Argv ==
    argv # <<>> =>
        /\ argv[1] = manifest.init
        /\ callArgs.some => Tail(argv) = callArgs.v
        /\ (~callArgs.some /\ manifest.args.some) => Tail(argv) = manifest.args.v
        /\ (~callArgs.some /\ ~manifest.args.some) => Tail(argv) = <<>>

\* the manifest has args and the call gives other args
C28_Witness ==
    /\ manifest.args = Some(<<"a">>)
    /\ callArgs = Some(<<"b", "a">>)
    /\ argv = <<"/bin/app", "b", "a">>

\* the keys of the manifest env that the per-call env does not have
ManifestOnly == DOMAIN manifest.env.v \ DOMAIN callEnv.v

\* C29: env is the name entry, the version entry, then the manifest entries
\* whose key is not a key of the per-call env, then every per-call entry; a
\* key of both has exactly one entry, with the per-call value
C29_Env ==
    envp # <<>> =>
        LET j == Cardinality(ManifestOnly)
        IN  /\ Len(envp) = 2 + j + Cardinality(DOMAIN callEnv.v)
            /\ envp[1] = <<ENV_NAME, "=", manifest.name>>
            /\ envp[2] = <<ENV_VERSION, "=", manifest.version>>
            /\ {envp[i] : i \in 3..(2 + j)} =
                   {<<k, "=", manifest.env.v[k]>> : k \in ManifestOnly}
            /\ {envp[i] : i \in (3 + j)..Len(envp)} =
                   {<<k, "=", callEnv.v[k]>> : k \in DOMAIN callEnv.v}
            /\ \A k \in DOMAIN manifest.env.v \cap DOMAIN callEnv.v :
                   {envp[i] : i \in {n \in 3..Len(envp) : envp[n][1] = k}} =
                       {<<k, "=", callEnv.v[k]>>}
            /\ \A k \in EnvKeys : Cardinality({n \in 3..Len(envp) : envp[n][1] = k}) <= 1

\* K1 is a key of both maps and K2 of the manifest only
C29_Witness ==
    /\ manifest.env = Some([k \in {"K1", "K2"} |-> "m"])
    /\ callEnv = Some([k \in {"K1"} |-> "c"])
    /\ envp = <<<<"NAME", "=", "hello">>, <<"VERSION", "=", "0.0.1">>,
                <<"K2", "=", "m">>, <<"K1", "=", "c">>>>

\* C30: when recv returns None, init exits with status 0: it has forked no
\* payload and has sent neither Forked nor Exit
C30_Disconnect ==
    /\ [][(ipc = "recv" /\ ipc' \notin {"recv", "pdeathsig"} /\ failed' = failed) =>
              (ipc' = "exit0" /\ pid' = 0 /\ sent' = <<>> /\ pay' = "none")]_vars
    /\ []((ipc = "exit0" /\ pid = 0) =>
              (sent = <<>> /\ pay = "none" /\ ptrace = <<>> /\ failed = "none" /\ ~waited))

\* init completed its setup, found the runtime gone and exited
C30_Witness ==
    /\ ipc = "exit0"
    /\ pid = 0
    /\ SetupCompleted
    /\ sent = <<>>

(***************************************************************************)
(* Claims about init's network namespace, mounts and reap loop             *)
(***************************************************************************)
\* C31: with a network namespace named whose entry does not exist init
\* attaches nothing, goes on to the next setup step and records no failure;
\* with the entry init attaches, or aborts when open or setns fail
C31_Netns ==
    /\ [][(ipc = "netns" /\ desc.netns = "missing") =>
              (ipc' = "unshare" /\ failed' = failed /\ ~netnsAttached')]_vars
    /\ [][(ipc = "netns" /\ desc.netns = "present") =>
              \/ ipc' = "unshare" /\ netnsAttached' /\ failed' = failed
              \/ ipc' = "aborted" /\ ~netnsAttached' /\ failed' = "netns"]_vars
    /\ [](netnsAttached => desc.netns = "present")
    /\ [](failed = "netns" => desc.netns = "present")

\* the named namespace has no entry and init completed its whole setup
C31_Witness ==
    /\ desc.netns = "missing"
    /\ SetupCompleted
    /\ ~netnsAttached
    /\ failed = "none"

\* C32: the mounts are invoked in list order, each one only after the one
\* before it succeeded; the first failing mount aborts init, and no later
\* mount and no later setup step is invoked
C32_Mounts ==
    /\ [][mounted' # mounted =>
              (mounted' = mounted + 1 /\ ipc = "mount" /\ failed = "none"
                   /\ mounted < desc.mounts)]_vars
    /\ [][(ipc = "mount" /\ ipc' = "aborted") =>
              (failed' = "mount" /\ mounted' = mounted /\ done' = done)]_vars
    /\ [][failed = "mount" => (mounted' = mounted /\ done' = done /\ ipc' = ipc)]_vars
    /\ [](failed = "mount" =>
              (ipc = "aborted" /\ mounted < desc.mounts /\ done[Len(done)] = "unshare"))
    /\ []((Len(done) >= 6 /\ done[6] = "mount") => mounted = desc.mounts)

\* the first mount succeeded and the second one failed
C32_Witness ==
    /\ desc.mounts = 2
    /\ mounted = 1
    /\ failed = "mount"
    /\ ipc = "aborted"

(***************************************************************************)
(* Claims about the signal mask and the signals sent to the container      *)
(***************************************************************************)
\* C33: the signals are blocked on the runtime thread when the child is
\* cloned, the parent's first step after the clone unblocks them, and create
\* has not returned, with a Process or with an error, while they are blocked
C33_SignalMask ==
    /\ [][(child = "none" /\ child' # "none") => (sigBlocked /\ sigBlocked')]_vars
    /\ [][(create = "cloned" /\ create' # "cloned") => ~sigBlocked']_vars
    /\ [](create \in {"done", "failed"} => ~sigBlocked)
    /\ [](sigBlocked => (proc = "none" /\ wt = "none" /\ ~checkpoint))

\* create returned the Process of a cloned child with the signals unblocked
C33_Witness ==
    /\ create = "done"
    /\ proc = "created"
    /\ child = "waiting"
    /\ ~sigBlocked

\* init or the container is alive
ContainerAlive == child \in {"cloned", "waiting", "started"}

\* C35: a signal sent to -pid by kill(signal) or by the spawn deadline reaches
\* init whenever init is alive: before spawn, before and after init's setsid,
\* and while the container runs
C35_GroupSignal ==
    [][(killed' # killed /\ ContainerAlive) => killed'[Len(killed')].delivered]_vars

\* C34: init sends Exit only from a terminal wait status of the payload pid,
\* Exited(code) as Exit(code) and Signaled(sig) as Signalled(sig); a waitpid
\* that does not end the loop sends nothing; after sending Exit init exits
\* with status 0 whatever the payload's status was
C34_ReapLoop ==
    /\ [][(sent' # sent /\ sent'[Len(sent')].type = "Exit") =>
              /\ ipc = "send_exit" /\ ipc' = "exit0"
              /\ pay = "reaped"
              /\ sent'[Len(sent')].pid = pid
              /\ pstatus.kind \in {"Exited", "Signaled"}
              /\ pstatus.kind = "Exited" =>
                     sent'[Len(sent')].status = [kind |-> "Exit", v |-> pstatus.v]
              /\ pstatus.kind = "Signaled" =>
                     sent'[Len(sent')].status = [kind |-> "Signalled", v |-> pstatus.v]]_vars
    /\ [][(ipc = "waitpid" /\ ipc' # "aborted") =>
              /\ sent' = sent
              /\ ipc' = "send_exit" <=> (Waitable /\ pay' = "reaped")
              /\ ipc' \in {"waitpid", "send_exit"}]_vars
    /\ []((ipc = "exit0" /\ pid # 0) => sent[Len(sent)].type = "Exit")

\* the application exited with code 1; init reported it and exited with 0
C34_Witness ==
    /\ ipc = "exit0"
    /\ waited
    /\ pstatus = ExitStatus("Exited", 1)
    /\ sent = <<Forked(pid), ExitMessage(pid, [kind |-> "Exit", v |-> 1])>>

(***************************************************************************)
(* Claims about the uid/gid transition and the payload's stdio             *)
(***************************************************************************)
\* the statements of set_ids
IdsSteps == {"ids", "setresgid", "setresuid", "ids_reset", "ids_keep"}

\* C36: setresgid comes before setresuid; an init that runs with euid 0 has
\* keep-caps set during both, its effective set is the full set again after
\* them, and keep-caps is cleared before the next setup step; an init that
\* does not run with euid 0 leaves keep-caps and the capability sets as they
\* are
C36_Ids ==
    /\ [][(ipc # "setresuid" /\ ipc' = "setresuid") => ipc = "setresgid"]_vars
    /\ [][euid' # euid => ipc = "setresuid"]_vars
    /\ [](ipc \in {"setresgid", "setresuid"} => (keepcaps <=> euid = 0))
    /\ [][(ipc = "ids_reset" /\ ipc' = "ids_keep" /\ keepcaps) => caps'.e = Caps]_vars
    /\ [](ipc = "ids_keep" /\ keepcaps => caps.e = Caps)
    /\ [][(ipc = "ids_keep" /\ ipc' = "groups") => (~keepcaps' /\ caps' = caps)]_vars
    /\ [](ipc \notin (IdsSteps \cup {"aborted"}) => ~keepcaps)
    /\ [][(ipc \in IdsSteps /\ ~keepcaps /\ euid # 0) =>
              (caps' = caps /\ keepcaps' = keepcaps)]_vars

\* a root init became uid 1000 and has its full effective set back, with
\* keep-caps cleared
C36_Witness ==
    /\ ipc = "groups"
    /\ euid = UserUid
    /\ caps.e = Caps
    /\ caps.p = Caps
    /\ ~keepcaps

\* C37: for the three descriptors received as stdin, stdout and stderr, also
\* when they are numbered 0, 1 or 2, the payload has descriptors 0, 1 and 2
\* open on the received stdin, stdout and stderr after its dup2 and close
\* statements
C37_Stdio ==
    pay = AfterClose => (pfd[0] = "stdin" /\ pfd[1] = "stdout" /\ pfd[2] = "stderr")

(***************************************************************************)
(* Claim about a failed send of a request                                  *)
(***************************************************************************)
\* C38: when the write of a request's frame fails, the waiter of that request
\* gets the Io error, the pending slot stays empty and the multiplexer keeps
\* running; the slot only ever holds a request whose frame was written
C38_SendFailure ==
    /\ [][(TakesRequest /\ response_tx = 0 /\ wire' = wire) =>
              LET i == Head(request_rx) IN
              /\ waiter'[i] = IF waiter[i] = Waiting THEN Waiter("Io", 0) ELSE waiter[i]
              /\ \A j \in ReqIds \ {i} : waiter'[j] = waiter[j]
              /\ response_tx' = 0]_vars
    /\ [](\A i \in ReqIds : waiter[i].st = "Io" => i \notin SeqToSet(wire))
    /\ [](response_tx # 0 => response_tx \in SeqToSet(wire))

\* the first request failed in its send; the second one was accepted and
\* written and is pending
C38_Witness ==
    /\ waiter[1].st = "Io"
    /\ wire = <<2>>
    /\ response_tx = 2
    /\ mux = "running"

====
